---- MODULE Spec2Model ----
(***************************************************************************)
(* Streaming core of the Apeiron chat client (App.tsx): the per-model      *)
(* stream tasks spawned by sendMessage, the serialized conversation update *)
(* path, stopStreaming, buildContext, mergeSources and the SSE decoding    *)
(* loops of the three provider adapters.                                   *)
(*                                                                         *)
(* Strings are sequences of characters, so that string concatenation is    *)
(* sequence concatenation.  uid() is modelled as a fresh identifier.       *)
(* createdAt, updatedAt and title are never read by the modelled code and  *)
(* are left out of the records.                                            *)
(***************************************************************************)
EXTENDS Integers, Sequences, FiniteSets, TLC

VARIABLES
    conversations,          \* useLocalStorage(STORAGE_KEYS.conversations): Conversation[]
    activeConversationId,   \* useLocalStorage(STORAGE_KEYS.activeConversation)
    abortControllersRef,    \* keys of the Map<string, AbortController>
    tasks,                  \* the per-model async closures of sendMessage, by assistant message id
    turns,                  \* one entry per sendMessage call: its tasks and its returned promise
    nextId,                 \* uid(): next fresh identifier
    keys,                   \* settings.keys
    enabled,                \* settings.enabledModels
    compareMode,            \* useState(false)
    selectedModelId,        \* useState(MODEL_OPTIONS[0].id)
    selectedCompareModels,  \* useState([MODEL_OPTIONS[0].id])
    sse,                    \* one run of an adapter's read loop over a byte stream
    arg,                    \* the arguments of a call of a pure function
    res                     \* the value that call returned

appVars == <<conversations, activeConversationId, abortControllersRef, tasks, turns,
             nextId, keys, enabled, compareMode, selectedModelId, selectedCompareModels>>

\* not touched by the application's operations
idleVars == <<sse, arg, res>>

vars == <<appVars, idleVars>>

----------------------------------------------------------------------------
(* Bounds of the model *)

MaxTurns == 2       \* sendMessage calls in one behaviour
MaxTasks == 2       \* tasks spawned in one behaviour
MaxFrames == 2      \* JSON frames one provider stream delivers

----------------------------------------------------------------------------
(* Static data *)

Undefined == "<undefined>"
Null == "<null>"

PROVIDERS ==
    [ openrouter |-> [type |-> "openai",    baseUrl |-> "https://openrouter.ai/api/v1"],
      openai     |-> [type |-> "openai",    baseUrl |-> "https://api.openai.com/v1"],
      anthropic  |-> [type |-> "anthropic", baseUrl |-> "https://api.anthropic.com/v1"],
      google     |-> [type |-> "google",    baseUrl |-> "https://generativelanguage.googleapis.com/v1beta"],
      mistral    |-> [type |-> "openai",    baseUrl |-> "https://api.mistral.ai/v1"],
      deepseek   |-> [type |-> "openai",    baseUrl |-> "https://api.deepseek.com/v1"] ]

ProviderIds == DOMAIN PROVIDERS

\* MODEL_OPTIONS[0] followed by settings.customModels as read from storage
allModels ==
    << [id |-> "openrouter/anthropic/claude-opus-4.5", providerId |-> "openrouter"],
       [id |-> "claude-custom",                        providerId |-> "anthropic"] >>

ModelIds == {allModels[i].id : i \in DOMAIN allModels}

enabledModels == SelectSeq(allModels, LAMBDA model : model.id \in enabled)

Key(p) == <<"key-of", p>>

UserInputs == {<<"q">>}
ErrorTexts == {<<>>, <<"x">>}

----------------------------------------------------------------------------
(* Pure helpers of App.tsx *)

\* a lookup that never finds the url
IndexOfUrl_miss(list, url, i) == 0

RECURSIVE IndexOfUrl(_, _, _)
IndexOfUrl(list, url, i) ==
    IF i > Len(list) THEN 0
    ELSE IF list[i].url = url THEN i
    ELSE IndexOfUrl(list, url, i + 1)

\* b ?? a: the incoming value wins when it is defined
Coalesce_incoming(a, b) == IF b = Undefined THEN a ELSE b

\* JavaScript a ?? b
Coalesce(a, b) == IF a = Undefined THEN b ELSE a

\* map.set(source.url, value): a Map keeps the position of a key it already has
MapSet(list, value) ==
    LET i == IndexOfUrl(list, value.url, 1)
    IN IF i = 0 THEN Append(list, value) ELSE [list EXCEPT ![i] = value]

\* incoming.forEach((source) => list.push(source))
MergeIncoming_push(list, source) == Append(list, source)

\* map.delete(source.url) before map.set: the merged entry moves to the end
MergeIncoming_moveToEnd(list, source) ==
    LET i == IndexOfUrl(list, source.url, 1)
    IN IF i = 0 THEN Append(list, source)
       ELSE Append(SubSeq(list, 1, i - 1) \o SubSeq(list, i + 1, Len(list)),
                   [url     |-> source.url,
                    title   |-> Coalesce(list[i].title, source.title),
                    content |-> Coalesce(list[i].content, source.content)])

MergeIncoming(list, source) ==
    LET i == IndexOfUrl(list, source.url, 1)
    IN IF i = 0 THEN Append(list, source)
       ELSE [list EXCEPT ![i] = [url     |-> source.url,
                                 title   |-> Coalesce(list[i].title, source.title),
                                 content |-> Coalesce(list[i].content, source.content)]]

RECURSIVE FoldSet(_, _)
FoldSet(list, rest) ==
    IF rest = <<>> THEN list ELSE FoldSet(MapSet(list, Head(rest)), Tail(rest))

RECURSIVE FoldIncoming(_, _)
FoldIncoming(list, rest) ==
    IF rest = <<>> THEN list ELSE FoldIncoming(MergeIncoming(list, Head(rest)), Tail(rest))

\* an absent sources list (existing ?? []) is the empty sequence
mergeSources(existing, incoming) ==
    FoldIncoming(FoldSet(<<>>, existing), incoming)

\* a context filtered by the model id alone
buildContext_modelOnly(messages, modelId, providerId) ==
    SelectSeq(messages, LAMBDA message :
        \/ message.role = "user"
        \/ /\ message.role = "assistant"
           /\ message.modelId = modelId)

\* a context that is the whole log
buildContext_all(messages, modelId, providerId) == messages

buildContext(messages, modelId, providerId) ==
    SelectSeq(messages, LAMBDA message :
        \/ message.role = "user"
        \/ /\ message.role = "assistant"
           /\ message.modelId = modelId
           /\ message.providerId = providerId)

----------------------------------------------------------------------------
(* Values derived on every render of App *)

\* every enabled model, with or without a key
availableModels_all == enabledModels

availableModels == SelectSeq(enabledModels, LAMBDA model : keys[model.providerId] # <<>>)

\* the result of a find(...) ?? null that found nothing
NoModel == [id |-> Null, providerId |-> Null]

FindModel(models, id) ==
    LET hits == SelectSeq(models, LAMBDA model : model.id = id)
    IN IF hits = <<>> THEN NoModel ELSE Head(hits)

selectedModel ==
    LET found == FindModel(availableModels, selectedModelId)
    IN IF found # NoModel THEN found
       ELSE IF availableModels # <<>> THEN availableModels[1]
       ELSE NoModel

HasConversation(id) == \E i \in DOMAIN conversations : conversations[i].id = id

\* conversations.find(...) of a conversation that exists
ConversationOf(convs, id) ==
    convs[CHOOSE i \in DOMAIN convs :
            /\ convs[i].id = id
            /\ \A j \in DOMAIN convs : convs[j].id = id => i <= j]

\* the send button never turns into the stop button
isStreaming_never == FALSE

isStreaming ==
    /\ HasConversation(activeConversationId)
    /\ LET messages == ConversationOf(conversations, activeConversationId).messages
       IN \E i \in DOMAIN messages : messages[i].isStreaming

----------------------------------------------------------------------------
(* The serialized update path *)

\* an update addressed to the conversation that is active when it is applied
updateConversation_active(convs, conversationId, updated) ==
    [i \in DOMAIN convs |->
        IF convs[i].id = activeConversationId THEN updated[i] ELSE convs[i]]

\* prev.map((conversation) => conversation.id === conversationId
\*              ? updater(conversation) : conversation),
\* the updater given by its values: updated[i] is updater(convs[i])
updateConversation(convs, conversationId, updated) ==
    [i \in DOMAIN convs |->
        IF convs[i].id = conversationId THEN updated[i] ELSE convs[i]]

\* conversation.messages.map((message) => message.id === id ? change(message) : message),
\* the change given by its values: changed[j] is change(conversation.messages[j])
MapMessage(conversation, id, changed) ==
    [conversation EXCEPT !.messages =
        [j \in DOMAIN @ |-> IF @[j].id = id THEN changed[j] ELSE @[j]]]

\* messages: [message, ...conversation.messages]
AppendMessage_prepend(conversation, message) ==
    [conversation EXCEPT !.messages = <<message>> \o @]

AppendMessage(conversation, message) ==
    [conversation EXCEPT !.messages = Append(@, message)]

----------------------------------------------------------------------------
(* Citations carried by a frame *)

\* a nested url_citation / urlCitation object, or its absence
NoObject == [present |-> FALSE, url |-> Undefined, title |-> Undefined, content |-> Undefined]

Flat(url, title, content) ==
    [isObject |-> TRUE, url_citation |-> NoObject, urlCitation |-> NoObject,
     url |-> url, title |-> title, content |-> content]

Nested(url, title, content) ==
    [isObject |-> TRUE,
     url_citation |-> [present |-> TRUE, url |-> url, title |-> title, content |-> content],
     urlCitation |-> NoObject,
     url |-> Undefined, title |-> Undefined, content |-> Undefined]

\* typeof v === "string": Undefined stands for an absent or non-string value
IsString(v) == v # Undefined

\* the fields read from the annotation itself, whatever it nests
extractOne_flat(ann) ==
    IF ~ann.isObject \/ ~IsString(ann.url) \/ ann.url = "" THEN <<>>
    ELSE << [url     |-> ann.url,
             title   |-> IF IsString(ann.title) THEN ann.title ELSE Undefined,
             content |-> IF IsString(ann.content) THEN ann.content ELSE Undefined] >>

extractOne(ann) ==
    IF ~ann.isObject THEN <<>>
    ELSE LET citation == IF ann.url_citation.present THEN ann.url_citation
                         ELSE IF ann.urlCitation.present THEN ann.urlCitation
                         ELSE ann
             url == IF IsString(citation.url) THEN citation.url
                    ELSE IF IsString(ann.url) THEN ann.url
                    ELSE ""
         IN IF url = "" THEN <<>>
            ELSE << [url     |-> url,
                     title   |-> IF IsString(citation.title) THEN citation.title ELSE Undefined,
                     content |-> IF IsString(citation.content) THEN citation.content ELSE Undefined] >>

RECURSIVE extractSources(_)
extractSources(annotations) ==
    IF annotations = <<>> THEN <<>>
    ELSE extractOne(Head(annotations)) \o extractSources(Tail(annotations))

----------------------------------------------------------------------------
(* Decoded frames and the events an adapter emits for them.  A frame is    *)
(* the payload of one "data:" segment: the literal [DONE], text that does  *)
(* not parse as JSON, or a JSON object with the fields the adapter probes  *)
(* (an absent field is the empty sequence).                                *)

JsonFrame(content, annotations, images) ==
    [done |-> FALSE, json |-> TRUE, content |-> content,
     annotations |-> annotations, images |-> images]

DoneFrame == [done |-> TRUE, json |-> FALSE, content |-> <<>>, annotations |-> <<>>, images |-> <<>>]

\* The k-th JSON frame of a provider stream: its token is the digit k, every
\* frame after the first carries citations, the second an image.
TokenAt(k) == << ToString(k) >>

AnnotationsAt(k) ==
    IF k = 1 THEN << >>
    ELSE IF k % 2 = 0 THEN << Flat("u1", Undefined, "c1") >>
    ELSE << Nested("u1", "T1", Undefined), Flat("u2", "", Undefined) >>

ImagesAt(k) == IF k = 2 THEN << <<"img">> >> ELSE << >>

StreamFrame(k) == JsonFrame(TokenAt(k), AnnotationsAt(k), ImagesAt(k))

\* frames from + 1 .. from + n of the stream
StreamFrames(from, n) == [i \in 1..n |-> StreamFrame(from + i)]

TokenEvent(text) == [kind |-> "token", text |-> text, url |-> <<>>, annotations |-> <<>>]
ImageEvent(url) == [kind |-> "image", text |-> <<>>, url |-> url, annotations |-> <<>>]
AnnotationsEvent(anns) == [kind |-> "annotations", text |-> <<>>, url |-> <<>>, annotations |-> anns]

RECURSIVE ImageEvents(_)
ImageEvents(urls) ==
    IF urls = <<>> THEN <<>>
    ELSE (IF Head(urls) # <<>> THEN <<ImageEvent(Head(urls))>> ELSE <<>>) \o ImageEvents(Tail(urls))

\* the body of the try block of streamOpenAICompatible
OpenAIFrameEvents(frame) ==
    IF ~frame.json THEN <<>>
    ELSE (IF frame.content # <<>> THEN <<TokenEvent(frame.content)>> ELSE <<>>)
         \o (IF frame.annotations # <<>> THEN <<AnnotationsEvent(frame.annotations)>> ELSE <<>>)
         \o ImageEvents(frame.images)

\* the body of the try block of streamAnthropic and of streamGoogle
TextFrameEvents(frame) ==
    IF frame.json /\ frame.content # <<>> THEN <<TokenEvent(frame.content)>> ELSE <<>>

\* the for loop over the frames of one chunk: the events emitted, and whether
\* the adapter returned on [DONE]
RECURSIVE ChunkEvents(_, _)
ChunkEvents(type, frames) ==
    IF frames = <<>> THEN [events |-> <<>>, returned |-> FALSE]
    ELSE IF type = "openai" /\ Head(frames).done THEN [events |-> <<>>, returned |-> TRUE]
    ELSE LET first == IF type = "openai" THEN OpenAIFrameEvents(Head(frames))
                      ELSE TextFrameEvents(Head(frames))
             rest == ChunkEvents(type, Tail(frames))
         IN [events |-> first \o rest.events, returned |-> rest.returned]

----------------------------------------------------------------------------
(* The callbacks sendMessage passes to streamProviderResponse *)

\* onToken that builds the content from the message object of the closure
\* instead of the message the updater receives
onToken_stale(convs, conversationId, id, token) ==
    updateConversation(convs, conversationId, [i \in DOMAIN convs |->
        MapMessage(convs[i], id, [j \in DOMAIN convs[i].messages |->
            [convs[i].messages[j] EXCEPT !.content = token, !.isStreaming = TRUE]])])

\* content: token + message.content
onToken_prepend(convs, conversationId, id, token) ==
    updateConversation(convs, conversationId, [i \in DOMAIN convs |->
        MapMessage(convs[i], id, [j \in DOMAIN convs[i].messages |->
            [convs[i].messages[j] EXCEPT !.content = token \o @, !.isStreaming = TRUE]])])

onToken(convs, conversationId, id, token) ==
    updateConversation(convs, conversationId, [i \in DOMAIN convs |->
        MapMessage(convs[i], id, [j \in DOMAIN convs[i].messages |->
            [convs[i].messages[j] EXCEPT !.content = @ \o token, !.isStreaming = TRUE]])])

onImage(convs, conversationId, id, url) ==
    updateConversation(convs, conversationId, [i \in DOMAIN convs |->
        MapMessage(convs[i], id, [j \in DOMAIN convs[i].messages |->
            [convs[i].messages[j] EXCEPT !.images = Append(@, url), !.isStreaming = TRUE]])])

onAnnotations(convs, conversationId, id, annotations) ==
    LET incoming == extractSources(annotations)
    IN IF incoming = <<>> THEN convs
       ELSE updateConversation(convs, conversationId, [i \in DOMAIN convs |->
                MapMessage(convs[i], id, [j \in DOMAIN convs[i].messages |->
                    [convs[i].messages[j] EXCEPT !.sources = mergeSources(@, incoming),
                                    !.isStreaming = TRUE]])])

ApplyEvent(convs, conversationId, id, event) ==
    IF event.kind = "token" THEN onToken(convs, conversationId, id, event.text)
    ELSE IF event.kind = "image" THEN onImage(convs, conversationId, id, event.url)
    ELSE onAnnotations(convs, conversationId, id, event.annotations)

RECURSIVE ApplyEvents(_, _, _, _)
ApplyEvents(convs, conversationId, id, events) ==
    IF events = <<>> THEN convs
    ELSE ApplyEvents(ApplyEvent(convs, conversationId, id, Head(events)),
                     conversationId, id, Tail(events))

RECURSIVE TokenTexts(_)
TokenTexts(events) ==
    IF events = <<>> THEN <<>>
    ELSE (IF Head(events).kind = "token" THEN <<Head(events).text>> ELSE <<>>)
         \o TokenTexts(Tail(events))

\* a task body that ends after the try block without an update
ClearStreaming_none(convs, conversationId, id) == convs

\* the update after the try block
ClearStreaming(convs, conversationId, id) ==
    updateConversation(convs, conversationId, [i \in DOMAIN convs |->
        MapMessage(convs[i], id, [j \in DOMAIN convs[i].messages |->
            [convs[i].messages[j] EXCEPT !.isStreaming = FALSE]])])

\* a catch block without the AbortError branch
CatchAbortError_asError(convs, conversationId, id) ==
    updateConversation(convs, conversationId, [i \in DOMAIN convs |->
        MapMessage(convs[i], id, [j \in DOMAIN convs[i].messages |->
            [convs[i].messages[j] EXCEPT !.content = <<"Error: ", "The operation was aborted.">>,
                        !.isStreaming = FALSE]])])

\* the update of the AbortError branch of the catch block
CatchAbortError(convs, conversationId, id) ==
    updateConversation(convs, conversationId, [i \in DOMAIN convs |->
        MapMessage(convs[i], id, [j \in DOMAIN convs[i].messages |->
            [convs[i].messages[j] EXCEPT !.isStreaming = FALSE]])])

\* the error update selecting the messages by their streaming flag
WriteError_streaming(convs, conversationId, id, message) ==
    updateConversation(convs, conversationId, [i \in DOMAIN convs |->
        [convs[i] EXCEPT !.messages =
            [j \in DOMAIN @ |->
                IF @[j].id = id \/ @[j].isStreaming
                THEN [@[j] EXCEPT !.content = <<"Error: ">> \o message, !.isStreaming = FALSE]
                ELSE @[j]]]])

\* the error text appended to the content received so far
WriteError_append(convs, conversationId, id, message) ==
    updateConversation(convs, conversationId, [i \in DOMAIN convs |->
        MapMessage(convs[i], id, [j \in DOMAIN convs[i].messages |->
            [convs[i].messages[j] EXCEPT !.content = @ \o <<"Error: ">> \o message,
                                         !.isStreaming = FALSE]])])

\* the failed message rebuilt without the spread of the message it replaces
WriteError_fresh(convs, conversationId, id, message) ==
    updateConversation(convs, conversationId, [i \in DOMAIN convs |->
        MapMessage(convs[i], id, [j \in DOMAIN convs[i].messages |->
            [convs[i].messages[j] EXCEPT !.content = <<"Error: ">> \o message,
                                         !.modelId = Undefined, !.providerId = Undefined,
                                         !.isStreaming = FALSE]])])

\* the last update of the catch block
WriteError(convs, conversationId, id, message) ==
    updateConversation(convs, conversationId, [i \in DOMAIN convs |->
        MapMessage(convs[i], id, [j \in DOMAIN convs[i].messages |->
            [convs[i].messages[j] EXCEPT !.content = <<"Error: ">> \o message, !.isStreaming = FALSE]])])

----------------------------------------------------------------------------
(* streamProviderResponse up to the fetch call of the adapter it selects *)

\* no check of the key before the adapter is selected
streamProviderResponse_noCheck(providerId, apiKey) ==
    LET provider == PROVIDERS[providerId]
    IN [threw   |-> FALSE,
        type    |-> provider.type,
        baseUrl |-> IF provider.type = "openai" THEN provider.baseUrl
                    ELSE IF provider.type = "anthropic" THEN PROVIDERS.anthropic.baseUrl
                    ELSE PROVIDERS.google.baseUrl,
        apiKey  |-> apiKey]

\* every provider served by the OpenAI-compatible adapter at one base URL
streamProviderResponse_oneUrl(providerId, apiKey) ==
    IF apiKey = <<>>
    THEN [threw |-> TRUE, type |-> Null, baseUrl |-> Null, apiKey |-> apiKey]
    ELSE [threw   |-> FALSE,
          type    |-> "openai",
          baseUrl |-> PROVIDERS.openrouter.baseUrl,
          apiKey  |-> apiKey]

streamProviderResponse(providerId, apiKey) ==
    IF apiKey = <<>>
    THEN [threw |-> TRUE, type |-> Null, baseUrl |-> Null, apiKey |-> apiKey]
    ELSE LET provider == PROVIDERS[providerId]
         IN [threw   |-> FALSE,
             type    |-> provider.type,
             baseUrl |-> IF provider.type = "openai" THEN provider.baseUrl
                         ELSE IF provider.type = "anthropic" THEN PROVIDERS.anthropic.baseUrl
                         ELSE PROVIDERS.google.baseUrl,
             apiKey  |-> apiKey]

MissingKeyMessage == <<"Missing API key for provider.">>
RequestFailedMessage == <<"Request failed">>
NetworkErrorMessage == <<"network error">>

\* a catch block that rethrows
CatchSettles_rethrow == "rejected"

\* how the promise of a task's async function ends once its catch block has run
CatchSettles == "fulfilled"

\* Promise.all over the promises of the tasks of a turn
PromiseAll(promises) ==
    IF \E i \in DOMAIN promises : promises[i] = "rejected" THEN "rejected"
    ELSE IF \A i \in DOMAIN promises : promises[i] = "fulfilled" THEN "fulfilled"
    ELSE "pending"

\* a promise of sendMessage that the end of its tasks does not settle
Settle_never(allTurns, allTasks) == allTurns

\* Promise.all settles in the microtasks that follow the settling of a task
Settle(allTurns, allTasks) ==
    [k \in DOMAIN allTurns |->
        IF allTurns[k].promise # "pending" THEN allTurns[k]
        ELSE [allTurns[k] EXCEPT !.promise =
                PromiseAll([i \in DOMAIN allTurns[k].tasks |->
                               allTasks[allTurns[k].tasks[i]].promise])]]

----------------------------------------------------------------------------
(* State *)

\* Two empty chats read from storage, every provider key entered, both
\* models picked for comparison.
AppInit ==
    /\ conversations = << [id |-> "c1", messages |-> <<>>], [id |-> "c2", messages |-> <<>>] >>
    /\ activeConversationId = "c1"
    /\ abortControllersRef = {}
    /\ tasks = << >>
    /\ turns = << >>
    /\ nextId = 1
    /\ keys = [p \in ProviderIds |-> Key(p)]
    /\ enabled = ModelIds
    /\ compareMode = FALSE
    /\ selectedModelId = allModels[1].id
    /\ selectedCompareModels = << allModels[1].id, allModels[2].id >>

NoRun == [phase |-> "idle"]
NoCall == [fn |-> "none"]

Idle ==
    /\ sse = NoRun
    /\ arg = NoCall
    /\ res = NoCall

Init == AppInit /\ Idle

TaskIds == DOMAIN tasks

Pending(t) == tasks[t].pc \in {"fetch", "text", "read"}

\* the task body without abortControllersRef.current.set(...)
RECURSIVE Dispatch_unregistered(_, _, _, _, _, _)
Dispatch_unregistered(modelsToRun, st, baseMessages, userMessage, conversationId, turn) ==
    IF modelsToRun = <<>> THEN st
    ELSE
      LET found == FindModel(availableModels, Head(modelsToRun))
          model == IF found # NoModel THEN found ELSE selectedModel
      IN IF model = NoModel
         THEN Dispatch_unregistered(Tail(modelsToRun), st, baseMessages, userMessage, conversationId, turn)
         ELSE
           LET id == st.next
               assistantMessage ==
                   [id |-> id, role |-> "assistant", content |-> <<>>,
                    modelId |-> model.id, providerId |-> model.providerId,
                    isStreaming |-> TRUE, images |-> <<>>, sources |-> <<>>]
               appended == updateConversation(st.convs, conversationId, [i \in DOMAIN st.convs |->
                               AppendMessage(st.convs[i], assistantMessage)])
               contextMessages ==
                   buildContext(Append(baseMessages, userMessage), model.id, model.providerId)
               call == streamProviderResponse(model.providerId, keys[model.providerId])
               task == [conversationId |-> conversationId, turn |-> turn,
                        modelId |-> model.id, providerId |-> model.providerId,
                        type |-> call.type, baseUrl |-> call.baseUrl, apiKey |-> call.apiKey,
                        messages |-> contextMessages,
                        pc |-> IF call.threw THEN "done" ELSE "fetch",
                        outcome |-> IF call.threw THEN "error" ELSE "none",
                        promise |-> IF call.threw THEN CatchSettles ELSE "pending",
                        at |-> IF call.threw THEN "call" ELSE "none",
                        aborted |-> FALSE, received |-> <<>>]
               next == [convs |-> IF call.threw
                                  THEN WriteError(appended, conversationId, id, MissingKeyMessage)
                                  ELSE appended,
                        registry |-> st.registry,
                        tasks |-> (id :> task) @@ st.tasks,
                        next |-> id + 1,
                        ids |-> Append(st.ids, id)]
           IN Dispatch_unregistered(Tail(modelsToRun), next, baseMessages, userMessage, conversationId, turn)

\* the task body of sendMessage, from its start to its first await, for each
\* model of modelsToRun in order
RECURSIVE Dispatch(_, _, _, _, _, _)
Dispatch(modelsToRun, st, baseMessages, userMessage, conversationId, turn) ==
    IF modelsToRun = <<>> THEN st
    ELSE
      LET found == FindModel(availableModels, Head(modelsToRun))
          model == IF found # NoModel THEN found ELSE selectedModel
      IN IF model = NoModel
         THEN Dispatch(Tail(modelsToRun), st, baseMessages, userMessage, conversationId, turn)
         ELSE
           LET id == st.next
               assistantMessage ==
                   [id |-> id, role |-> "assistant", content |-> <<>>,
                    modelId |-> model.id, providerId |-> model.providerId,
                    isStreaming |-> TRUE, images |-> <<>>, sources |-> <<>>]
               appended == updateConversation(st.convs, conversationId, [i \in DOMAIN st.convs |->
                               AppendMessage(st.convs[i], assistantMessage)])
               contextMessages ==
                   buildContext(Append(baseMessages, userMessage), model.id, model.providerId)
               call == streamProviderResponse(model.providerId, keys[model.providerId])
               task == [conversationId |-> conversationId, turn |-> turn,
                        modelId |-> model.id, providerId |-> model.providerId,
                        type |-> call.type, baseUrl |-> call.baseUrl, apiKey |-> call.apiKey,
                        messages |-> contextMessages,
                        pc |-> IF call.threw THEN "done" ELSE "fetch",
                        outcome |-> IF call.threw THEN "error" ELSE "none",
                        promise |-> IF call.threw THEN CatchSettles ELSE "pending",
                        at |-> IF call.threw THEN "call" ELSE "none",
                        aborted |-> FALSE, received |-> <<>>]
               next == [convs |-> IF call.threw
                                  THEN WriteError(appended, conversationId, id, MissingKeyMessage)
                                  ELSE appended,
                        registry |-> IF call.threw THEN st.registry ELSE st.registry \cup {id},
                        tasks |-> (id :> task) @@ st.tasks,
                        next |-> id + 1,
                        ids |-> Append(st.ids, id)]
           IN Dispatch(Tail(modelsToRun), next, baseMessages, userMessage, conversationId, turn)

sendMessage(trimmed) ==
    /\ ~isStreaming
    /\ HasConversation(activeConversationId)
    /\ trimmed # <<>>
    /\ availableModels # <<>>
    /\ Len(turns) < MaxTurns
    /\ LET activeConversation == ConversationOf(conversations, activeConversationId)
           baseMessages == activeConversation.messages
           userMessage == [id |-> nextId, role |-> "user", content |-> trimmed,
                           modelId |-> Undefined, providerId |-> Undefined,
                           isStreaming |-> FALSE, images |-> <<>>, sources |-> <<>>]
           withUser == updateConversation(conversations, activeConversation.id,
                           [i \in DOMAIN conversations |->
                               AppendMessage(conversations[i], userMessage)])
           modelsToRun ==
               IF compareMode
               THEN SelectSeq(selectedCompareModels, LAMBDA modelId :
                        \E i \in DOMAIN availableModels : availableModels[i].id = modelId)
               ELSE IF selectedModel # NoModel THEN << selectedModel.id >> ELSE << >>
           d == Dispatch(modelsToRun,
                         [convs |-> withUser, registry |-> abortControllersRef,
                          tasks |-> tasks, next |-> nextId + 1, ids |-> << >>],
                         baseMessages, userMessage, activeConversation.id, Len(turns) + 1)
       IN /\ Cardinality(DOMAIN tasks) + Len(modelsToRun) <= MaxTasks
          /\ conversations' = d.convs
          /\ abortControllersRef' = d.registry
          /\ tasks' = d.tasks
          /\ nextId' = d.next
          /\ turns' = Settle(Append(turns, [conversationId |-> activeConversation.id,
                                            userMessage |-> userMessage.id,
                                            tasks |-> d.ids, promise |-> "pending"]),
                             d.tasks)
    /\ UNCHANGED <<activeConversationId, keys, enabled, compareMode, selectedModelId,
                   selectedCompareModels, idleVars>>

----------------------------------------------------------------------------
(* Steps of a running task: each is the code run when the promise the task *)
(* awaits settles, up to the next await.  A task whose signal is aborted   *)
(* sees that promise reject with the AbortError DOMException.              *)

settingsVars == <<keys, enabled, compareMode, selectedModelId, selectedCompareModels>>

\* a request made without the signal: its awaits settle after an abort too
Running_detached(t) == t \in TaskIds /\ Pending(t)

Running(t) == t \in TaskIds /\ Pending(t) /\ ~tasks[t].aborted

\* await fetch(...) resolves: response.ok and response.body decide the branch
FetchResolves(t, ok) ==
    /\ Running(t)
    /\ tasks[t].pc = "fetch"
    /\ tasks' = [tasks EXCEPT ![t].pc = IF ok THEN "read" ELSE "text"]
    /\ UNCHANGED <<conversations, activeConversationId, abortControllersRef, turns, nextId,
                   settingsVars, idleVars>>

\* the task leaves its async function: its registry entry is deleted, its
\* last update is applied, its promise settles
\* a task end without abortControllersRef.current.delete(...)
TaskTerminates_keep(t, convs, received, outcome, promise) ==
    LET after == [tasks EXCEPT ![t].pc = "done", ![t].at = tasks[t].pc,
                               ![t].outcome = outcome, ![t].promise = promise,
                               ![t].received = received]
    IN /\ abortControllersRef' = abortControllersRef
       /\ conversations' = convs
       /\ tasks' = after
       /\ turns' = Settle(turns, after)
       /\ UNCHANGED <<activeConversationId, nextId, settingsVars, idleVars>>

TaskTerminates(t, convs, received, outcome, promise) ==
    LET after == [tasks EXCEPT ![t].pc = "done", ![t].at = tasks[t].pc,
                               ![t].outcome = outcome, ![t].promise = promise,
                               ![t].received = received]
    IN /\ abortControllersRef' = abortControllersRef \ {t}
       /\ conversations' = convs
       /\ tasks' = after
       /\ turns' = Settle(turns, after)
       /\ UNCHANGED <<activeConversationId, nextId, settingsVars, idleVars>>

\* the catch block of the task for an error that is not an AbortError
TaskFails(t, message) ==
    TaskTerminates(t, WriteError(conversations, tasks[t].conversationId, t, message),
                   tasks[t].received, "error", CatchSettles)

\* await response.text() resolves: throw new Error(errorText || "Request failed")
ErrorTextResolves(t, errorText) ==
    /\ Running(t)
    /\ tasks[t].pc = "text"
    /\ TaskFails(t, IF errorText # <<>> THEN errorText ELSE RequestFailedMessage)

\* the awaited fetch, response.text() or reader.read() rejects with a network error
AwaitRejects(t) ==
    /\ Running(t)
    /\ TaskFails(t, NetworkErrorMessage)

\* await reader.read() resolves with a chunk that completes the next n JSON
\* frames of the stream, then the [DONE] frame if sentinel, then one more
\* JSON frame if trailing
ReadChunk(t, n, sentinel, trailing) ==
    /\ Running(t)
    /\ tasks[t].pc = "read"
    /\ n >= 1 \/ sentinel
    /\ trailing => sentinel
    /\ LET from == Len(tasks[t].received)
           chunk == StreamFrames(from, n)
                    \o (IF sentinel THEN << DoneFrame >> ELSE << >>)
                    \o (IF trailing THEN << StreamFrame(from + n + 1) >> ELSE << >>)
           out == ChunkEvents(tasks[t].type, chunk)
           applied == ApplyEvents(conversations, tasks[t].conversationId, t, out.events)
           received == tasks[t].received \o TokenTexts(out.events)
       IN /\ from + n + (IF trailing THEN 1 ELSE 0) <= MaxFrames
          /\ IF out.returned
             THEN TaskTerminates(t, ClearStreaming(applied, tasks[t].conversationId, t),
                                 received, "end", "fulfilled")
             ELSE /\ conversations' = applied
                  /\ tasks' = [tasks EXCEPT ![t].received = received]
                  /\ UNCHANGED <<abortControllersRef, turns, activeConversationId, nextId,
                                 settingsVars, idleVars>>

\* await reader.read() resolves with done: the code after the try block
ReadDone(t) ==
    /\ Running(t)
    /\ tasks[t].pc = "read"
    /\ TaskTerminates(t, ClearStreaming(conversations, tasks[t].conversationId, t),
                      tasks[t].received, "end", "fulfilled")

\* the AbortError branch of the catch block
AbortCaught(t) ==
    /\ t \in TaskIds
    /\ Pending(t)
    /\ tasks[t].aborted
    /\ TaskTerminates(t, CatchAbortError(conversations, tasks[t].conversationId, t),
                      tasks[t].received, "aborted", CatchSettles)

----------------------------------------------------------------------------
(* User operations *)

\* one AbortController shared by the tasks: aborting any aborts all registered
Abort_shared(controllers) ==
    [t \in TaskIds |->
        IF controllers # {} /\ t \in abortControllersRef
        THEN [tasks[t] EXCEPT !.aborted = TRUE] ELSE tasks[t]]

\* no controller is aborted
Abort_none(controllers) == [t \in TaskIds |-> tasks[t]]

\* only the controllers of the active conversation's tasks are aborted
Abort_active(controllers) ==
    [t \in TaskIds |->
        IF t \in controllers /\ tasks[t].conversationId = activeConversationId
        THEN [tasks[t] EXCEPT !.aborted = TRUE] ELSE tasks[t]]

\* controller.abort() for every controller of the set
Abort(controllers) ==
    [t \in TaskIds |-> IF t \in controllers THEN [tasks[t] EXCEPT !.aborted = TRUE] ELSE tasks[t]]

\* a stop that clears the flag of the last message only
StopUpdater_last(conversation) ==
    [conversation EXCEPT !.messages =
        [j \in DOMAIN @ |-> IF j = Len(@) /\ @[j].isStreaming
                            THEN [@[j] EXCEPT !.isStreaming = FALSE]
                            ELSE @[j]]]

\* a stop that drops the partial content of the messages it stops
StopUpdater_reset(conversation) ==
    [conversation EXCEPT !.messages =
        [j \in DOMAIN @ |-> IF @[j].isStreaming
                            THEN [@[j] EXCEPT !.isStreaming = FALSE, !.content = <<>>]
                            ELSE @[j]]]

\* the updater stopStreaming passes to updateConversation
StopUpdater(conversation) ==
    [conversation EXCEPT !.messages =
        [j \in DOMAIN @ |-> IF @[j].isStreaming THEN [@[j] EXCEPT !.isStreaming = FALSE]
                            ELSE @[j]]]

\* the send/stop button and the Enter key call it while isStreaming holds
stopStreaming ==
    /\ isStreaming
    /\ tasks' = Abort(abortControllersRef)
    /\ abortControllersRef' = {}
    /\ conversations' =
         IF ~HasConversation(activeConversationId) THEN conversations
         ELSE updateConversation(conversations, activeConversationId,
                                 [i \in DOMAIN conversations |-> StopUpdater(conversations[i])])
    /\ UNCHANGED <<activeConversationId, turns, nextId, settingsVars, idleVars>>

\* onClick={() => setActiveConversationId(conversation.id)}
SelectConversation(id) ==
    /\ HasConversation(id)
    /\ id # activeConversationId
    /\ activeConversationId' = id
    /\ UNCHANGED <<conversations, abortControllersRef, tasks, turns, nextId, settingsVars, idleVars>>

\* setSelectedModel={(model) => setSelectedModelId(model.id)} of the ModelPicker,
\* which lists availableModels
SelectModel(id) ==
    /\ ~compareMode
    /\ \E i \in DOMAIN availableModels : availableModels[i].id = id
    /\ id # selectedModelId
    /\ selectedModelId' = id
    /\ UNCHANGED <<conversations, activeConversationId, abortControllersRef, tasks, turns,
                   nextId, keys, enabled, compareMode, selectedCompareModels, idleVars>>

\* onClick={() => setCompareMode((prev) => !prev)}
ToggleCompareMode ==
    /\ compareMode' = ~compareMode
    /\ UNCHANGED <<conversations, activeConversationId, abortControllersRef, tasks, turns,
                   nextId, keys, enabled, selectedModelId, selectedCompareModels, idleVars>>

----------------------------------------------------------------------------

Next ==
    \/ \E trimmed \in UserInputs : sendMessage(trimmed)
    \/ \E t \in TaskIds, ok \in BOOLEAN : FetchResolves(t, ok)
    \/ \E t \in TaskIds, errorText \in ErrorTexts : ErrorTextResolves(t, errorText)
    \/ \E t \in TaskIds : AwaitRejects(t)
    \/ \E t \in TaskIds, n \in 0..MaxFrames, sentinel \in BOOLEAN, trailing \in BOOLEAN :
          ReadChunk(t, n, sentinel, trailing)
    \/ \E t \in TaskIds : ReadDone(t)
    \/ \E t \in TaskIds : AbortCaught(t)
    \/ stopStreaming
    \/ \E i \in DOMAIN conversations : SelectConversation(conversations[i].id)
    \/ ToggleCompareMode
    \/ \E id \in ModelIds : SelectModel(id)

Spec == Init /\ [][Next]_vars

----------------------------------------------------------------------------
(* buildContext called on a log of up to MaxLog messages *)

MaxLog == 3

LogModelIds == {"mA", "mB"}
LogProviderIds == {"openrouter", "openai"}

LogMessage(id, kind) ==
    [id |-> id, role |-> kind.role, content |-> << ToString(id) >>,
     modelId |-> kind.modelId, providerId |-> kind.providerId,
     isStreaming |-> FALSE, images |-> <<>>, sources |-> <<>>]

MessageKinds ==
    {[role |-> "user", modelId |-> Undefined, providerId |-> Undefined]}
    \cup {[role |-> "assistant", modelId |-> m, providerId |-> q] :
             m \in LogModelIds, q \in LogProviderIds}

\* the logs of n messages: the message at position i has id i
Logs ==
    UNION { {[i \in 1..n |-> LogMessage(i, kinds[i])] : kinds \in [1..n -> MessageKinds]} :
            n \in 0..MaxLog }

InitContext ==
    /\ AppInit
    /\ sse = NoRun
    /\ arg \in {[fn |-> "buildContext", messages |-> log, modelId |-> m, providerId |-> q] :
                  log \in Logs, m \in LogModelIds, q \in LogProviderIds}
    /\ res = NoCall

CallBuildContext ==
    /\ arg.fn = "buildContext"
    /\ res = NoCall
    /\ res' = [fn |-> "buildContext",
               value |-> buildContext(arg.messages, arg.modelId, arg.providerId)]
    /\ UNCHANGED <<appVars, sse, arg>>

NextContext == CallBuildContext

SpecContext == InitContext /\ [][NextContext]_vars

----------------------------------------------------------------------------
(* A holder of one task's handle calls abort() on it.  The application     *)
(* itself aborts handles only in stopStreaming; this operation is the one  *)
(* the per-task AbortController exposes through the registry.              *)

AbortOne(t) ==
    /\ t \in abortControllersRef
    /\ ~tasks[t].aborted
    /\ tasks' = Abort({t})
    /\ UNCHANGED <<conversations, activeConversationId, abortControllersRef, turns, nextId,
                   settingsVars, idleVars>>

NextCancel ==
    \/ \E trimmed \in UserInputs : sendMessage(trimmed)
    \/ \E t \in TaskIds, ok \in BOOLEAN : FetchResolves(t, ok)
    \/ \E t \in TaskIds, errorText \in ErrorTexts : ErrorTextResolves(t, errorText)
    \/ \E t \in TaskIds : AwaitRejects(t)
    \/ \E t \in TaskIds, n \in 0..MaxFrames, sentinel \in BOOLEAN, trailing \in BOOLEAN :
          ReadChunk(t, n, sentinel, trailing)
    \/ \E t \in TaskIds : ReadDone(t)
    \/ \E t \in TaskIds : AbortCaught(t)
    \/ stopStreaming
    \/ ToggleCompareMode
    \/ \E t \in TaskIds : AbortOne(t)

SpecCancel == Init /\ [][NextCancel]_vars

\* the promise task t awaits settles: its provider answers, delivers a
\* chunk, ends or fails, or the abort of its signal rejects the await
ProviderStep(t) ==
    \/ \E ok \in BOOLEAN : FetchResolves(t, ok)
    \/ \E errorText \in ErrorTexts : ErrorTextResolves(t, errorText)
    \/ AwaitRejects(t)
    \/ \E n \in 0..MaxFrames, sentinel \in BOOLEAN, trailing \in BOOLEAN :
          ReadChunk(t, n, sentinel, trailing)
    \/ ReadDone(t)
    \/ AbortCaught(t)

\* turns, stop and the abort of single handles, with providers none of
\* which stalls for ever
SpecLive ==
    /\ Init
    /\ [][NextCancel]_vars
    /\ \A t \in 1..(MaxTurns + MaxTasks) : WF_vars(ProviderStep(t))

----------------------------------------------------------------------------
(* The read loop of the three adapters, byte by byte                       *)
(*                                                                         *)
(* A byte is a one-character string; "C3" and "A9" are the two bytes of    *)
(* one two-byte UTF-8 character.  A JSON object is written "{" text "}":   *)
(* text stands for the delta the adapter reads out of the object.          *)

MaxSegments == 2

LF == "LF"
SP == " "
LeadByte == "C3"
ContinuationByte == "A9"
TwoByteChar == "U+00E9"
ReplacementChar == "U+FFFD"

DataPrefix == <<"d", "a", "t", "a", ":">>
DoneSentinel == <<"[", "D", "O", "N", "E", "]">>

\* the UTF-8 decoding of value after the bytes in pending: the text, and
\* the bytes of a character that value leaves unfinished
RECURSIVE utf8(_, _)
utf8(pending, value) ==
    IF value = <<>> THEN [text |-> <<>>, pending |-> pending]
    ELSE IF pending # <<>>
    THEN IF Head(value) = ContinuationByte
         THEN LET rest == utf8(<<>>, Tail(value))
              IN  [text |-> <<TwoByteChar>> \o rest.text, pending |-> rest.pending]
         ELSE LET rest == utf8(<<>>, value)
              IN  [text |-> <<ReplacementChar>> \o rest.text, pending |-> rest.pending]
    ELSE IF Head(value) = LeadByte THEN utf8(<<LeadByte>>, Tail(value))
    ELSE LET rest == utf8(<<>>, Tail(value))
             char == IF Head(value) = ContinuationByte THEN ReplacementChar ELSE Head(value)
         IN  [text |-> <<char>> \o rest.text, pending |-> rest.pending]

\* decoder.decode(value) without the stream option: an unfinished character
\* is flushed as U+FFFD at the end of every chunk
decode_flush(pending, value) ==
    LET d == utf8(pending, value)
    IN  [text |-> d.text \o (IF d.pending = <<>> THEN <<>> ELSE <<ReplacementChar>>),
         pending |-> <<>>]

\* decoder.decode(value, { stream: true })
decode(pending, value) ==
    LET d == utf8(pending, value)
    IN  [text |-> d.text, pending |-> d.pending]

startsWith(s, prefix) ==
    Len(s) >= Len(prefix) /\ SubSeq(s, 1, Len(prefix)) = prefix

\* String.prototype.split: cur is the part read so far
RECURSIVE split(_, _, _)
split(s, separator, cur) ==
    IF s = <<>> THEN <<cur>>
    ELSE IF startsWith(s, separator)
    THEN <<cur>> \o split(SubSeq(s, Len(separator) + 1, Len(s)), separator, <<>>)
    ELSE split(Tail(s), separator, Append(cur, Head(s)))

IsSpace(c) == c \in {SP, LF}

RECURSIVE trimStart(_)
trimStart(s) == IF s # <<>> /\ IsSpace(Head(s)) THEN trimStart(Tail(s)) ELSE s

RECURSIVE trimEnd(_)
trimEnd(s) ==
    IF s # <<>> /\ IsSpace(s[Len(s)]) THEN trimEnd(SubSeq(s, 1, Len(s) - 1)) ELSE s

trim(s) == trimEnd(trimStart(s))

\* line.replace(/^data:\s*/, "")
stripData(line) ==
    IF startsWith(line, DataPrefix)
    THEN trimStart(SubSeq(line, Len(DataPrefix) + 1, Len(line)))
    ELSE line

JSONparse(data) ==
    IF /\ Len(data) >= 2
       /\ data[1] = "{"
       /\ data[Len(data)] = "}"
       /\ \A i \in 2..(Len(data) - 1) : data[i] \notin {"{", "}", LF}
    THEN [ok |-> TRUE, text |-> SubSeq(data, 2, Len(data) - 1)]
    ELSE [ok |-> FALSE, text |-> <<>>]

\* data that does not parse passed on as a token
DeltaEvents_raw(data) ==
    LET json == JSONparse(data)
    IN  IF ~json.ok THEN << TokenEvent(data) >>
        ELSE IF json.text # <<>> THEN << TokenEvent(json.text) >> ELSE <<>>

\* try { json = JSON.parse(data); if (text) onToken(text) } catch {}
DeltaEvents(data) ==
    LET json == JSONparse(data)
    IN  IF json.ok /\ json.text # <<>> THEN << TokenEvent(json.text) >> ELSE <<>>

NoEvents == [events |-> <<>>, returned |-> FALSE]

\* the sentinel skipped like a frame without a delta
openAIPart_skipDone(part) ==
    LET line == trim(part)
        data == trim(stripData(line))
    IN  IF ~startsWith(line, DataPrefix) \/ data = DoneSentinel THEN NoEvents
        ELSE [events |-> DeltaEvents(data), returned |-> FALSE]

openAIPart(part) ==
    LET line == trim(part)
        data == trim(stripData(line))
    IN  IF ~startsWith(line, DataPrefix) THEN NoEvents
        ELSE IF data = DoneSentinel THEN [events |-> <<>>, returned |-> TRUE]
        ELSE [events |-> DeltaEvents(data), returned |-> FALSE]

anthropicEvent(event) ==
    LET lines == split(event, <<LF>>, <<>>)
        dataLines == SelectSeq(lines, LAMBDA line : startsWith(line, DataPrefix))
    IN  IF dataLines = <<>> THEN NoEvents
        ELSE [events |-> DeltaEvents(trim(stripData(Head(dataLines)))), returned |-> FALSE]

googlePart(part) ==
    LET line == trim(part)
    IN  IF ~startsWith(line, DataPrefix) THEN NoEvents
        ELSE [events |-> DeltaEvents(trim(stripData(line))), returned |-> FALSE]

PartEvents(type, part) ==
    IF type = "openai" THEN openAIPart(part)
    ELSE IF type = "anthropic" THEN anthropicEvent(part)
    ELSE googlePart(part)

\* for (const part of parts) { ... }
RECURSIVE ForParts(_, _)
ForParts(type, parts) ==
    IF parts = <<>> THEN NoEvents
    ELSE LET first == PartEvents(type, Head(parts))
         IN  IF first.returned THEN first
             ELSE LET rest == ForParts(type, Tail(parts))
                  IN  [events |-> first.events \o rest.events, returned |-> rest.returned]

StartRun(type, stream) ==
    [phase |-> "reading", type |-> type, stream |-> stream, pos |-> 0,
     pending |-> <<>>, buffer |-> <<>>, events |-> <<>>, splits |-> {}]

\* where the chunk ending at pos cuts the stream
SplitKinds(stream, pos, pending, buffer) ==
    IF pos >= Len(stream) THEN {}
    ELSE (IF pending # <<>> THEN {"character"} ELSE {})
         \cup (IF buffer # <<>> /\ buffer[Len(buffer)] = LF /\ stream[pos + 1] = LF
               THEN {"delimiter"} ELSE {})
         \cup (IF buffer # <<>> /\ buffer[Len(buffer)] # LF /\ stream[pos + 1] # LF
               THEN {"frame"} ELSE {})

\* one turn of the loop on a chunk: decode, split, keep the last part
ReadValue(run, value) ==
    LET d == decode(run.pending, value)
        parts == split(run.buffer \o d.text, <<LF, LF>>, <<>>)
        buffer == parts[Len(parts)]
        r == ForParts(run.type, SubSeq(parts, 1, Len(parts) - 1))
        pos == run.pos + Len(value)
    IN  [run EXCEPT !.phase = IF r.returned THEN "ended" ELSE "reading",
                    !.pos = pos,
                    !.pending = d.pending,
                    !.buffer = buffer,
                    !.events = @ \o r.events,
                    !.splits = @ \cup SplitKinds(run.stream, pos, d.pending, buffer)]

TokenBytes == DataPrefix \o <<SP, "{", "x", "}", LF, LF>>
TwoByteBytes == DataPrefix \o <<"{", LeadByte, ContinuationByte, "}", LF, LF>>
DoneBytes == DataPrefix \o <<SP>> \o DoneSentinel \o <<LF, LF>>
MalformedBytes == DataPrefix \o <<"{", LeadByte, "y", LF, LF>>
EventBytes == <<"e", LF>> \o DataPrefix \o <<SP, "{", "z", "}", LF, LF>>
PaddedBytes == <<LF, SP>> \o DataPrefix \o <<"{", ContinuationByte, "}", SP, LF, LF>>
UnfinishedBytes == DataPrefix \o <<"{", "w", "}", LF>>

Segments ==
    {TokenBytes, TwoByteBytes, DoneBytes, MalformedBytes, EventBytes, PaddedBytes,
     UnfinishedBytes}

RECURSIVE Streams(_)
Streams(n) ==
    IF n = 0 THEN {<<>>}
    ELSE {<<>>} \cup {segment \o rest : segment \in Segments, rest \in Streams(n - 1)}

AdapterTypes == {PROVIDERS[p].type : p \in ProviderIds}

InitSSE ==
    /\ AppInit
    /\ sse \in {StartRun(type, stream) : type \in AdapterTypes, stream \in Streams(MaxSegments)}
    /\ arg = NoCall
    /\ res = NoCall

\* reader.read() resolves with the next n bytes
ReaderYields(n) ==
    /\ sse.phase = "reading"
    /\ sse.pos + n <= Len(sse.stream)
    /\ sse' = ReadValue(sse, SubSeq(sse.stream, sse.pos + 1, sse.pos + n))
    /\ UNCHANGED <<appVars, arg, res>>

\* an end of stream that handles what is left in the buffer as a last part
ReaderEnds_flush ==
    /\ sse.phase = "reading"
    /\ sse.pos = Len(sse.stream)
    /\ sse' = [sse EXCEPT !.phase = "ended",
                          !.events = @ \o PartEvents(sse.type, sse.buffer).events]
    /\ UNCHANGED <<appVars, arg, res>>

\* reader.read() resolves with done
ReaderEnds ==
    /\ sse.phase = "reading"
    /\ sse.pos = Len(sse.stream)
    /\ sse' = [sse EXCEPT !.phase = "ended"]
    /\ UNCHANGED <<appVars, arg, res>>

NextSSE ==
    \/ \E n \in 1..Len(sse.stream) : ReaderYields(n)
    \/ ReaderEnds

SpecSSE == InitSSE /\ [][NextSSE]_vars

----------------------------------------------------------------------------
(* mergeSources called on an existing list of up to MaxExisting citations   *)
(* and an incoming batch of up to MaxIncoming, then called again on its own *)
(* result with the same batch                                               *)

MaxExisting == 2
MaxIncoming == 2

Citation(url, title, content) == [url |-> url, title |-> title, content |-> content]

Citations ==
    { Citation("u1", Undefined, Undefined), Citation("u1", "", "c"),
      Citation("u1", "T", Undefined),       Citation("u1", "U", "d"),
      Citation("u2", Undefined, "c"),       Citation("u2", "T", ""),
      Citation("u3", Undefined, Undefined) }

SourceLists(n) == UNION { [1..k -> Citations] : k \in 0..n }

InitMerge ==
    /\ AppInit
    /\ sse = NoRun
    /\ arg \in {[fn |-> "mergeSources", existing |-> S, incoming |-> L] :
                  S \in SourceLists(MaxExisting), L \in SourceLists(MaxIncoming)}
    /\ res = NoCall

CallMergeSources ==
    /\ arg.fn = "mergeSources"
    /\ res = NoCall
    /\ res' = [fn |-> "mergeSources", calls |-> 1, existing |-> arg.existing,
               value |-> mergeSources(arg.existing, arg.incoming)]
    /\ UNCHANGED <<appVars, sse, arg>>

\* the same batch arrives again and is merged into the result of the first call
CallMergeSourcesAgain ==
    /\ res.fn = "mergeSources"
    /\ res.calls = 1
    /\ res' = [fn |-> "mergeSources", calls |-> 2, existing |-> res.value,
               value |-> mergeSources(res.value, arg.incoming)]
    /\ UNCHANGED <<appVars, sse, arg>>

NextMerge ==
    \/ CallMergeSources
    \/ CallMergeSourcesAgain

SpecMerge == InitMerge /\ [][NextMerge]_vars

----------------------------------------------------------------------------
(* Citation events of a turn: up to MaxEvents chunks, each one frame that   *)
(* carries up to MaxBatch annotations and no content                        *)

MaxEvents == 2
MaxBatch == 2

NotAnObject == [Flat(Undefined, Undefined, Undefined) EXCEPT !.isObject = FALSE]

Annotations ==
    { Flat("u1", Undefined, "c"), Flat("u1", "T", Undefined), Nested("u1", "U", "d"),
      Flat("u1", "", Undefined),  Flat("u2", "T", ""),        Flat(Undefined, "T", "c"),
      NotAnObject }

Batches == UNION { [1..k -> Annotations] : k \in 1..MaxBatch }

InitSources ==
    /\ AppInit
    /\ sse = NoRun
    /\ arg = NoCall
    /\ res = [fn |-> "onAnnotations", calls |-> 0, annotations |-> <<>>]

\* await reader.read() resolves with a chunk that is one frame whose delta
\* carries the annotations
ReadAnnotations(t, annotations) ==
    /\ Running(t)
    /\ tasks[t].pc = "read"
    /\ res.fn = "onAnnotations"
    /\ res.calls < MaxEvents
    /\ LET out == ChunkEvents(tasks[t].type, << JsonFrame(<<>>, annotations, <<>>) >>)
       IN conversations' = ApplyEvents(conversations, tasks[t].conversationId, t, out.events)
    /\ res' = [fn |-> "onAnnotations", calls |-> res.calls + 1, annotations |-> annotations]
    /\ UNCHANGED <<activeConversationId, abortControllersRef, tasks, turns, nextId,
                   settingsVars, sse, arg>>

NextSources ==
    \/ \E trimmed \in UserInputs : sendMessage(trimmed)
    \/ \E t \in TaskIds : FetchResolves(t, TRUE)
    \/ \E t \in TaskIds, annotations \in Batches : ReadAnnotations(t, annotations)
    \/ \E t \in TaskIds : ReadDone(t)
    \/ ToggleCompareMode

SpecSources == InitSources /\ [][NextSources]_vars

----------------------------------------------------------------------------
(* Turns while the keys and the model selection change *)

\* the providers of the models of the application
ModelProviders == {allModels[i].providerId : i \in DOMAIN allModels}

\* useEffect: a selectedModelId that is not available becomes the first
\* available model
ResetSelectedModelId(available, id) ==
    IF FindModel(available, id) = NoModel /\ available # <<>>
    THEN available[1].id
    ELSE id

\* useEffect: the compare selection keeps its available models
FilterCompareModels(available, models) ==
    SelectSeq(models, LAMBDA modelId :
        \E i \in DOMAIN available : available[i].id = modelId)

\* availableModels at the render of these settings
AvailableWith(ids, ks) ==
    SelectSeq(allModels, LAMBDA model : model.id \in ids /\ ks[model.providerId] # <<>>)

\* onChange of the key input of provider p, followed by the effects that
\* depend on availableModels
SetKey(p, value) ==
    /\ keys[p] # value
    /\ keys' = [keys EXCEPT ![p] = value]
    /\ LET available == AvailableWith(enabled, keys')
       IN /\ selectedModelId' = ResetSelectedModelId(available, selectedModelId)
          /\ selectedCompareModels' = FilterCompareModels(available, selectedCompareModels)
    /\ UNCHANGED <<conversations, activeConversationId, abortControllersRef, tasks, turns,
                   nextId, enabled, compareMode, idleVars>>

\* onChange of the checkbox of a model, followed by the effects: the one
\* that restores an empty settings.enabledModels to every model, and, at
\* each of the two renders, those that depend on availableModels
ToggleEnabledModel(id) ==
    LET next     == IF id \in enabled THEN enabled \ {id} ELSE enabled \cup {id}
        restored == IF next = {} THEN ModelIds ELSE next
        first    == AvailableWith(next, keys)
        second   == AvailableWith(restored, keys)
    IN /\ enabled' = restored
       /\ selectedModelId' =
             ResetSelectedModelId(second, ResetSelectedModelId(first, selectedModelId))
       /\ selectedCompareModels' =
             FilterCompareModels(second, FilterCompareModels(first, selectedCompareModels))
       /\ UNCHANGED <<conversations, activeConversationId, abortControllersRef, tasks,
                      turns, nextId, keys, compareMode, idleVars>>

\* onClick of a model of the ModelPicker in comparison mode
ToggleCompareModel(id) ==
    /\ compareMode
    /\ \E i \in DOMAIN availableModels : availableModels[i].id = id
    /\ LET models == IF \E i \in DOMAIN selectedCompareModels : selectedCompareModels[i] = id
                     THEN SelectSeq(selectedCompareModels, LAMBDA other : other # id)
                     ELSE Append(selectedCompareModels, id)
       IN selectedCompareModels' =
             IF models # <<>> THEN models
             ELSE IF selectedModel # NoModel THEN << selectedModel.id >>
             ELSE << >>
    /\ UNCHANGED <<conversations, activeConversationId, abortControllersRef, tasks, turns,
                   nextId, keys, enabled, compareMode, selectedModelId, idleVars>>

NextSettings ==
    \/ \E trimmed \in UserInputs : sendMessage(trimmed)
    \/ \E t \in TaskIds : FetchResolves(t, TRUE)
    \/ \E t \in TaskIds : ReadDone(t)
    \/ \E p \in ModelProviders : \E value \in {<<>>, Key(p)} : SetKey(p, value)
    \/ \E id \in ModelIds : ToggleEnabledModel(id)
    \/ \E id \in ModelIds : SelectModel(id)
    \/ ToggleCompareMode
    \/ \E id \in ModelIds : ToggleCompareModel(id)

SpecSettings == Init /\ [][NextSettings]_vars

----------------------------------------------------------------------------
(* Calls of streamProviderResponse for each provider, with and without a key *)

ApiKeys == {<<>>} \cup {Key(p) : p \in ModelProviders}

InitProvider ==
    /\ AppInit
    /\ sse = NoRun
    /\ arg \in {[fn |-> "streamProviderResponse", providerId |-> p, apiKey |-> k] :
                  p \in ProviderIds, k \in ApiKeys}
    /\ res = NoCall

\* the call up to the fetch of the adapter it selects, or to its throw
CallStreamProviderResponse ==
    /\ arg.fn = "streamProviderResponse"
    /\ res = NoCall
    /\ LET call == streamProviderResponse(arg.providerId, arg.apiKey)
       IN res' = [fn       |-> "streamProviderResponse",
                  pc       |-> IF call.threw THEN "rejected" ELSE "fetch",
                  error    |-> IF call.threw THEN MissingKeyMessage ELSE <<>>,
                  requests |-> IF call.threw THEN <<>>
                               ELSE << [baseUrl |-> call.baseUrl, apiKey |-> call.apiKey] >>,
                  type     |-> call.type,
                  events   |-> <<>>,
                  frames   |-> 0]
    /\ UNCHANGED <<appVars, sse, arg>>

\* await fetch(...) resolves: if (!response.ok || !response.body) throw
ResponseArrives(ok) ==
    /\ res.fn = "streamProviderResponse"
    /\ res.pc = "fetch"
    /\ res' = IF ok THEN [res EXCEPT !.pc = "read"]
              ELSE [res EXCEPT !.pc = "rejected", !.error = RequestFailedMessage]
    /\ UNCHANGED <<appVars, sse, arg>>

\* await reader.read() resolves with a chunk of n frames, with or without
\* the [DONE] sentinel after them
ReaderResolves(n, sentinel) ==
    /\ res.fn = "streamProviderResponse"
    /\ res.pc = "read"
    /\ n >= 1 \/ sentinel
    /\ res.frames + n <= MaxFrames
    /\ LET chunk == StreamFrames(res.frames, n)
                    \o (IF sentinel THEN << DoneFrame >> ELSE << >>)
           out == ChunkEvents(res.type, chunk)
       IN res' = [res EXCEPT !.events = @ \o out.events,
                             !.frames = @ + n,
                             !.pc = IF out.returned THEN "fulfilled" ELSE "read"]
    /\ UNCHANGED <<appVars, sse, arg>>

\* await reader.read() resolves with done
ReaderDone ==
    /\ res.fn = "streamProviderResponse"
    /\ res.pc = "read"
    /\ res' = [res EXCEPT !.pc = "fulfilled"]
    /\ UNCHANGED <<appVars, sse, arg>>

NextProvider ==
    \/ CallStreamProviderResponse
    \/ \E ok \in BOOLEAN : ResponseArrives(ok)
    \/ \E n \in 0..MaxFrames, sentinel \in BOOLEAN : ReaderResolves(n, sentinel)
    \/ ReaderDone

SpecProvider == InitProvider /\ [][NextProvider]_vars

----------------------------------------------------------------------------
(* extractSources called on a list of up to MaxAnnotations annotations *)

MaxAnnotations == 2

\* an annotation that nests a urlCitation object
Camel(url, title, content) ==
    [Flat(Undefined, Undefined, Undefined) EXCEPT
        !.urlCitation = [present |-> TRUE, url |-> url, title |-> title, content |-> content]]

\* flat and nested annotations with and without a url, annotations that
\* carry fields at both levels or nest both objects, and a value that is
\* not an object
RawAnnotations ==
    { Flat("u1", "T", "c"),
      Flat("u1", Undefined, Undefined),
      Flat(Undefined, "T", "c"),
      Flat("", "T", Undefined),
      Nested("u2", "U", Undefined),
      Camel("u3", Undefined, "d"),
      [Nested("u2", "U", "d") EXCEPT !.url = "u1", !.title = "T", !.content = "c"],
      [Nested(Undefined, "U", Undefined) EXCEPT !.url = "u1", !.title = "T"],
      [Nested("u2", "U", Undefined) EXCEPT !.urlCitation = Camel("u3", "V", "d").urlCitation],
      [Nested("", "U", Undefined) EXCEPT !.url = "u1"],
      NotAnObject }

InitExtract ==
    /\ AppInit
    /\ sse = NoRun
    /\ arg \in {[fn |-> "extractSources", annotations |-> list] :
                  list \in UNION { [1..k -> RawAnnotations] : k \in 0..MaxAnnotations }}
    /\ res = NoCall

CallExtractSources ==
    /\ arg.fn = "extractSources"
    /\ res = NoCall
    /\ res' = [fn |-> "extractSources", value |-> extractSources(arg.annotations)]
    /\ UNCHANGED <<appVars, sse, arg>>

SpecExtract == InitExtract /\ [][CallExtractSources]_vars

----------------------------------------------------------------------------
(* Turns in two conversations and stops.  abort() rejects the promise a    *)
(* task awaits and the event loop then runs the task's catch block, so the *)
(* AbortError branch of an aborted task is not postponed for ever.         *)

NextStop ==
    \/ \E trimmed \in UserInputs : sendMessage(trimmed)
    \/ \E t \in TaskIds : FetchResolves(t, TRUE)
    \/ \E t \in TaskIds, n \in 0..MaxFrames, sentinel \in BOOLEAN, trailing \in BOOLEAN :
          ReadChunk(t, n, sentinel, trailing)
    \/ \E t \in TaskIds : ReadDone(t)
    \/ \E t \in TaskIds : AbortCaught(t)
    \/ stopStreaming
    \/ \E i \in DOMAIN conversations : SelectConversation(conversations[i].id)

SpecStop ==
    /\ Init
    /\ [][NextStop]_vars
    /\ \A t \in 1..(MaxTurns + MaxTasks) : WF_vars(AbortCaught(t))

----------------------------------------------------------------------------
(* Creating and deleting conversations while tasks stream.  createNewChat  *)
(* and deleteChat pass setConversations a list built from the              *)
(* conversations value of the render that created them, not an updater.    *)
(* The updates of a task are queued outside an event handler and rendered  *)
(* later, so that value can be behind the state by updates of tasks; the   *)
(* render that follows a user's own event is synchronous.  Here arg holds  *)
(* the conversations value the handlers of the last render closed over.    *)

MaxNewChats == 1

Rendered(convs) == [fn |-> "render", conversations |-> convs]

InitChats ==
    /\ AppInit
    /\ sse = NoRun
    /\ arg = Rendered(conversations)
    /\ res = NoCall

\* the render after a user's event has happened: the closure differs from
\* the state by updates of tasks only
RenderedUserEvents ==
    /\ Len(arg.conversations) = Len(conversations)
    /\ \A i \in DOMAIN conversations :
          /\ arg.conversations[i].id = conversations[i].id
          /\ [j \in DOMAIN arg.conversations[i].messages |-> arg.conversations[i].messages[j].id]
                = [j \in DOMAIN conversations[i].messages |-> conversations[i].messages[j].id]

\* the queued updates are rendered
Render ==
    /\ arg # Rendered(conversations)
    /\ arg' = Rendered(conversations)
    /\ UNCHANGED <<appVars, sse, res>>

\* id is the uid() of the new conversation: "c3", "c4", ...
createNewChat(id) ==
    /\ RenderedUserEvents
    /\ ~HasConversation(id)
    /\ \A t \in TaskIds : tasks[t].conversationId # id
    /\ conversations' = <<[id |-> id, messages |-> <<>>]>> \o arg.conversations
    /\ activeConversationId' = id
    /\ arg' = Rendered(conversations')
    /\ UNCHANGED <<abortControllersRef, tasks, turns, nextId, settingsVars, sse, res>>

deleteChat(id) ==
    /\ RenderedUserEvents
    /\ HasConversation(id)
    /\ LET next == SelectSeq(arg.conversations, LAMBDA conversation : conversation.id # id)
       IN  /\ conversations' = next
           /\ activeConversationId' =
                 IF activeConversationId # id THEN activeConversationId
                 ELSE IF next # <<>> THEN next[1].id ELSE Null
           /\ arg' = Rendered(next)
    /\ UNCHANGED <<abortControllersRef, tasks, turns, nextId, settingsVars, sse, res>>

NextChats ==
    \/ \E trimmed \in UserInputs : RenderedUserEvents /\ sendMessage(trimmed)
    \/ \E t \in TaskIds : FetchResolves(t, TRUE)
    \/ \E t \in TaskIds, n \in 0..MaxFrames, sentinel \in BOOLEAN, trailing \in BOOLEAN :
          ReadChunk(t, n, sentinel, trailing)
    \/ \E t \in TaskIds : ReadDone(t)
    \/ Render
    \/ \E k \in 1..MaxNewChats : createNewChat("c" \o ToString(2 + k))
    \/ \E i \in DOMAIN conversations : deleteChat(conversations[i].id)

SpecChats == InitChats /\ [][NextChats]_vars

----------------------------------------------------------------------------
(* The request message streamOpenAICompatible builds from one message of   *)
(* the context.  A data URL is a sequence of pieces of text, "," among     *)
(* them; a mimetype is the sequence of its type ("image/") and subtype.    *)

MaxAttachments == 2

\* attachments are ignored
payloadMessage_flat(msg) == [role |-> msg.role, content |-> msg.content]

\* atob is given by its table on the base64 texts the model uses
payloadMessage(msg) ==
    LET hasAttachments == Len(msg.attachments) > 0
        atob(encoded) == IF encoded = <<>> THEN ""
                         ELSE IF encoded = <<"aGk=">> THEN "hi" ELSE "y"
        part(att) ==
            IF startsWith(att.type, <<"image/">>)
            THEN [type |-> "image_url", image_url |-> [url |-> att.dataUrl]]
            ELSE LET pieces == split(att.dataUrl, <<",">>, <<>>)
                 IN  [type |-> "text",
                      text |-> <<"[File: ", att.name, "]", LF,
                                 atob(IF Len(pieces) >= 2 THEN pieces[2] ELSE <<>>)>>]
    IN  IF ~hasAttachments
        THEN [role |-> msg.role, content |-> msg.content]
        ELSE [role |-> msg.role,
              content |-> (IF msg.content # "" THEN <<[type |-> "text", text |-> msg.content]>>
                           ELSE <<>>)
                          \o [i \in 1..Len(msg.attachments) |-> part(msg.attachments[i])]]

\* a user message as sendMessage builds it (no text and no attachment is
\* not sent), or an assistant message, which has no attachments; a message
\* without the attachments field and one with an empty list take the same
\* branch, and both are the empty sequence here.  The attachments are what
\* FileReader.readAsDataURL yields for two images, two text files (one
\* without a mimetype) and an empty file, whose data URL has no ","
InitPayload ==
    LET Attachment(name, type, dataUrl) == [name |-> name, type |-> type, dataUrl |-> dataUrl]
        Attachments ==
            { Attachment("a.png", <<"image/", "png">>, <<"data:image/png;base64", ",", "iVBO">>),
              Attachment("b.jpg", <<"image/", "jpeg">>, <<"data:image/jpeg;base64", ",", "/9j/">>),
              Attachment("n.txt", <<"text/", "plain">>, <<"data:text/plain;base64", ",", "aGk=">>),
              Attachment("Makefile", <<>>, <<"data:application/octet-stream;base64", ",", "eQ==">>),
              Attachment("empty.txt", <<"text/", "plain">>, <<"data:">>) }
    IN  /\ AppInit
        /\ sse = NoRun
        /\ arg \in {[fn |-> "payloadMessages", msg |-> msg] :
                      msg \in [role : {"user", "assistant"}, content : {"", "hello"},
                               attachments :
                                  UNION { [1..k -> Attachments] : k \in 0..MaxAttachments }]}
        /\ arg.msg.role = "assistant" => arg.msg.attachments = <<>>
        /\ arg.msg.role = "user" /\ arg.msg.content = "" => arg.msg.attachments # <<>>
        /\ res = NoCall

CallPayloadMessage ==
    /\ arg.fn = "payloadMessages"
    /\ res = NoCall
    /\ res' = [fn |-> "payloadMessages", value |-> payloadMessage(arg.msg)]
    /\ UNCHANGED <<appVars, sse, arg>>

SpecPayload == InitPayload /\ [][CallPayloadMessage]_vars

----------------------------------------------------------------------------
(* useLocalStorage.  A value is a record of its JSON type and its text, a  *)
(* stored text is a sequence of pieces of text.  arg holds the hook's      *)
(* arguments and what storage held when it was first called; res holds     *)
(* the hook's state: the value in memory, what storage holds now, the      *)
(* value the hook started from, the last value given to setValue, whether  *)
(* the last write succeeded and whether an error left the hook.            *)

\* useState(initialValue): storage is not read
initializer_initialValue(storage, initialValue) == initialValue

\* the useState initializer: getItem throws when storage is denied,
\* JSON.parse throws on a text that is not JSON
initializer(storage, initialValue) ==
    LET text == trim(storage.text)
        parsed ==
            IF text = <<"null">> THEN [ok |-> TRUE, value |-> [type |-> "null", v |-> ""]]
            ELSE IF text = <<"[", "]">> THEN [ok |-> TRUE, value |-> [type |-> "array", v |-> ""]]
            ELSE IF Len(text) = 1 /\ text[1] \in {"0", "1"}
            THEN [ok |-> TRUE, value |-> [type |-> "number", v |-> text[1]]]
            ELSE IF Len(text) = 3 /\ text[1] = "\"" /\ text[3] = "\"" /\ text[2] # "\""
            THEN [ok |-> TRUE, value |-> [type |-> "string", v |-> text[2]]]
            ELSE [ok |-> FALSE]
    IN  IF storage.state = "denied" THEN initialValue
        ELSE IF storage.state = "absent" THEN initialValue
        ELSE IF parsed.ok THEN parsed.value
        ELSE initialValue

\* the effect: setItem(key, JSON.stringify(value)) inside try/catch, whose
\* catch block is empty; set is whether setItem succeeds
effect(state, set) ==
    LET text == IF state.value.type = "string" THEN <<"\"", state.value.v, "\"">>
                ELSE IF state.value.type = "number" THEN <<state.value.v>>
                ELSE IF state.value.type = "array" THEN <<"[", "]">>
                ELSE <<"null">>
    IN  [state EXCEPT !.storage = IF set THEN [state |-> "text", text |-> text] ELSE @,
                      !.wrote = set,
                      !.threw = FALSE]

\* the state after the first render and its effect
InitStorage ==
    /\ AppInit
    /\ sse = NoRun
    /\ arg \in [fn : {"useLocalStorage"},
                initialValue : {[type |-> "array", v |-> ""], [type |-> "null", v |-> ""],
                                [type |-> "string", v |-> "basic"]},
                storage : {[state |-> "absent", text |-> <<>>], [state |-> "denied", text |-> <<>>]}
                          \cup [state : {"text"},
                                text : {<<"null">>, <<"[", "]">>, <<"1">>, <<SP, "0", LF>>,
                                        <<"\"", "dark", "\"">>,
                                        <<>>, <<"undefined">>, <<"[">>, <<"\"", "dark">>}]]
    /\ \E set \in BOOLEAN :
          /\ arg.storage.state = "denied" => ~set
          /\ LET value == initializer(arg.storage, arg.initialValue)
             IN  res = effect([fn |-> "useLocalStorage", value |-> value, storage |-> arg.storage,
                               started |-> value, given |-> value, wrote |-> FALSE,
                               threw |-> FALSE], set)

\* setValue(value) with a value that differs from the state, the render
\* and the effect that follow
setValue(value, set) ==
    /\ res.fn = "useLocalStorage"
    /\ value # res.value
    /\ res.storage.state = "denied" => ~set
    /\ res' = effect([res EXCEPT !.value = value, !.given = value], set)
    /\ UNCHANGED <<appVars, sse, arg>>

SpecStorage ==
    /\ InitStorage
    /\ [][\E set \in BOOLEAN :
             \E value \in {[type |-> "array", v |-> ""], [type |-> "null", v |-> ""],
                           [type |-> "string", v |-> "dark"], [type |-> "number", v |-> "1"]} :
                 setValue(value, set)]_vars

----------------------------------------------------------------------------
(* Vocabulary of the properties *)

AllMessages(convs) ==
    UNION { {convs[i].messages[j] : j \in DOMAIN convs[i].messages} : i \in DOMAIN convs }

HasMessage(convs, id) == \E m \in AllMessages(convs) : m.id = id

MessageById(convs, id) == CHOOSE m \in AllMessages(convs) : m.id = id

RECURSIVE Flatten(_)
Flatten(texts) == IF texts = <<>> THEN <<>> ELSE Head(texts) \o Flatten(Tail(texts))

SameTurn(t, u) == t # u /\ tasks[t].turn = tasks[u].turn

\* every message other than that of task t is the same before and after the
\* step, and none is removed
OthersUntouched(t) ==
    /\ Len(conversations') = Len(conversations)
    /\ \A i \in DOMAIN conversations :
          /\ conversations'[i].id = conversations[i].id
          /\ Len(conversations'[i].messages) >= Len(conversations[i].messages)
          /\ \A j \in DOMAIN conversations[i].messages :
                conversations[i].messages[j].id # t
                    => conversations'[i].messages[j] = conversations[i].messages[j]

\* C1: when a task's stream has ended normally, the content of its
\* assistant message is the concatenation of exactly the token deltas that
\* task received, in arrival order
C1_TokensIntact ==
    \A t \in TaskIds :
        tasks[t].outcome = "end"
            => /\ HasMessage(conversations, t)
               /\ MessageById(conversations, t).content = Flatten(tasks[t].received)

\* two tasks of one turn have both ended normally after receiving all their tokens
C1_Witness ==
    \E t \in TaskIds, u \in TaskIds :
        /\ SameTurn(t, u)
        /\ tasks[t].outcome = "end" /\ Len(tasks[t].received) = MaxFrames
        /\ tasks[u].outcome = "end" /\ Len(tasks[u].received) = MaxFrames
        /\ MessageById(conversations, t).content = Flatten(tasks[t].received)
        /\ MessageById(conversations, u).content = Flatten(tasks[u].received)


\* C2: when the handle of one task alone is cancelled, every other task is
\* left as it was (not aborted, still registered, still running if it was),
\* every other message keeps its content and its streaming flag, and only a
\* task whose own handle was cancelled ever ends by cancellation
C2_CancelIsolation ==
    [][/\ \A t \in TaskIds :
            AbortOne(t)
                => /\ OthersUntouched(t)
                   /\ \A u \in TaskIds \ {t} :
                         /\ tasks'[u] = tasks[u]
                         /\ Running(u) => Running(u)'
                         /\ u \in abortControllersRef => u \in abortControllersRef'
       /\ \A u \in DOMAIN tasks' :
            tasks'[u].outcome = "aborted" => u \in TaskIds /\ tasks[u].aborted]_vars

\* one task of a turn is cancelled while its sibling, dispatched with it and
\* not stopped since, is still registered, running and streaming its content
C2_Witness ==
    \E t \in TaskIds, u \in TaskIds :
        /\ SameTurn(t, u)
        /\ tasks[t].aborted
        /\ ~tasks[u].aborted /\ u \in abortControllersRef /\ Running(u)
        /\ tasks[u].received # <<>>
        /\ MessageById(conversations, u).isStreaming
        /\ MessageById(conversations, u).content = Flatten(tasks[u].received)

\* task t ends by an error in this step
FailsNow(t) ==
    /\ t \in DOMAIN tasks'
    /\ tasks'[t].outcome = "error"
    /\ t \in DOMAIN tasks => tasks[t].outcome = "none"

\* C3: the step in which a task fails with a missing key or a transport
\* error changes no other message, aborts no other handle, removes no other
\* handle from the registry and leaves every other task as it was
C3_FailureIsolation ==
    [][\A t \in DOMAIN tasks' :
         FailsNow(t)
             => /\ OthersUntouched(t)
                /\ \A u \in TaskIds \ {t} :
                      /\ tasks'[u] = tasks[u]
                      /\ u \in abortControllersRef <=> u \in abortControllersRef']_vars

\* a task has failed and its sibling is still registered, running and
\* streaming the tokens it received
C3_Witness ==
    \E t \in TaskIds, u \in TaskIds :
        /\ SameTurn(t, u)
        /\ tasks[t].outcome = "error"
        /\ MessageById(conversations, t).content[1] = "Error: "
        /\ ~tasks[u].aborted /\ u \in abortControllersRef /\ Running(u)
        /\ tasks[u].received # <<>>
        /\ MessageById(conversations, u).isStreaming
        /\ MessageById(conversations, u).content = Flatten(tasks[u].received)

\* C4: right after stopStreaming every handle that was registered is
\* aborted, the registry is empty and no message of the active conversation
\* is marked streaming
C4_StopPostcondition ==
    [][stopStreaming
         => /\ \A t \in abortControllersRef : tasks'[t].aborted
            /\ abortControllersRef' = {}
            /\ ~isStreaming']_vars

\* a stop has just aborted the two tasks of a comparison turn
C4_Witness ==
    \E t \in TaskIds, u \in TaskIds :
        /\ SameTurn(t, u)
        /\ tasks[t].aborted /\ Pending(t)
        /\ tasks[u].aborted /\ Pending(u)
        /\ abortControllersRef = {}
        /\ tasks[t].conversationId = activeConversationId
        /\ ~isStreaming

\* C5: stopStreaming adds, removes and reorders no message, and changes no
\* field of a message other than isStreaming
C5_StopFrame ==
    [][stopStreaming
         => /\ Len(conversations') = Len(conversations)
            /\ \A i \in DOMAIN conversations :
                  /\ conversations'[i].id = conversations[i].id
                  /\ Len(conversations'[i].messages) = Len(conversations[i].messages)
                  /\ \A j \in DOMAIN conversations[i].messages :
                        [conversations'[i].messages[j] EXCEPT
                            !.isStreaming = conversations[i].messages[j].isStreaming]
                        = conversations[i].messages[j]]_vars

\* a stop has just cleared the flag of a message that holds tokens, an image
\* and citations
C5_Witness ==
    \E t \in TaskIds :
        /\ tasks[t].aborted /\ Pending(t)
        /\ abortControllersRef = {}
        /\ LET m == MessageById(conversations, t)
           IN /\ ~m.isStreaming
              /\ m.content = Flatten(tasks[t].received)
              /\ Len(tasks[t].received) = MaxFrames
              /\ m.images # <<>>
              /\ m.sources # <<>>

\* C6: a task that ended because its handle was cancelled leaves the
\* content of its message equal to the tokens it had received, with no
\* error text, and leaves the message not streaming
C6_CancelKeepsContent ==
    \A t \in TaskIds :
        tasks[t].outcome = "aborted"
            => /\ HasMessage(conversations, t)
               /\ MessageById(conversations, t).content = Flatten(tasks[t].received)
               /\ ~MessageById(conversations, t).isStreaming

\* one task was cancelled while reading the error body, its sibling while
\* reading chunks with tokens already received
C6_Witness ==
    \E t \in TaskIds, u \in TaskIds :
        /\ SameTurn(t, u)
        /\ tasks[t].outcome = "aborted" /\ tasks[t].at = "text"
        /\ tasks[u].outcome = "aborted" /\ tasks[u].at = "read"
        /\ tasks[u].received # <<>>
        /\ MessageById(conversations, u).content = Flatten(tasks[u].received)
        /\ MessageById(conversations, t).content = <<>>

\* C7: the promise sendMessage returns is settled only when every task of
\* the turn has terminated
C7_TurnCompletion ==
    \A k \in DOMAIN turns :
        turns[k].promise # "pending"
            => \A i \in DOMAIN turns[k].tasks : tasks[turns[k].tasks[i]].pc = "done"

\* a turn of two tasks stays pending after one task failed, and a turn has
\* settled after one task failed and the other ended normally
C7_Witness ==
    \E k \in DOMAIN turns :
        /\ turns[k].promise = "fulfilled"
        /\ Len(turns[k].tasks) = 2
        /\ \E i, j \in DOMAIN turns[k].tasks :
              /\ tasks[turns[k].tasks[i]].outcome \in {"error", "aborted"}
              /\ tasks[turns[k].tasks[j]].outcome = "end"
              /\ Len(tasks[turns[k].tasks[j]].received) = MaxFrames

\* C8: the message history of every request holds no assistant message
\* whose (modelId, providerId) differs from that of the request's target
C8_ContextIsolation ==
    \A t \in TaskIds :
        \A i \in DOMAIN tasks[t].messages :
            tasks[t].messages[i].role = "assistant"
                => /\ tasks[t].messages[i].modelId = tasks[t].modelId
                   /\ tasks[t].messages[i].providerId = tasks[t].providerId

\* a request was issued in a conversation whose log already held the reply
\* of another model
C8_Witness ==
    \E t \in TaskIds :
        \E m \in AllMessages(conversations) :
            /\ m.role = "assistant"
            /\ m.id < turns[tasks[t].turn].userMessage
            /\ m.modelId # tasks[t].modelId
            /\ \E i \in DOMAIN conversations :
                  /\ conversations[i].id = tasks[t].conversationId
                  /\ \E j \in DOMAIN conversations[i].messages :
                        conversations[i].messages[j] = m
            /\ tasks[t].messages # <<>>

\* the message is one buildContext has to keep for the target of the call
Kept(message) ==
    \/ message.role = "user"
    \/ /\ message.role = "assistant"
       /\ message.modelId = arg.modelId
       /\ message.providerId = arg.providerId

\* C9: buildContext returns the user messages and the assistant messages
\* tagged with the target pair, each exactly once, unaltered, in log order
C9_ContextIsFilter ==
    res.fn = "buildContext"
        => /\ \A i \in DOMAIN res.value :
                 \E j \in DOMAIN arg.messages :
                     arg.messages[j] = res.value[i] /\ Kept(arg.messages[j])
           /\ \A i, j \in DOMAIN res.value : i < j => res.value[i].id < res.value[j].id
           /\ \A j \in DOMAIN arg.messages :
                 Kept(arg.messages[j]) => \E i \in DOMAIN res.value : res.value[i] = arg.messages[j]

\* the log holds a reply of the target, a reply of the same model under
\* another provider and a user message; the first is kept, the second dropped
C9_Witness ==
    /\ res.fn = "buildContext"
    /\ Len(arg.messages) = 3
    /\ arg.messages[1].role = "assistant" /\ Kept(arg.messages[1])
    /\ arg.messages[2].role = "assistant" /\ arg.messages[2].modelId = arg.modelId
    /\ ~Kept(arg.messages[2])
    /\ arg.messages[3].role = "user"
    /\ res.value = << arg.messages[1], arg.messages[3] >>

\* C10: however the bytes of a stream are cut into chunks, an adapter whose
\* read loop has ended has emitted the events it emits when the whole
\* stream arrives as one chunk
C10_ChunkIndependence ==
    sse.phase = "ended"
        => sse.events = ReadValue(StartRun(sse.type, sse.stream), sse.stream).events

\* an ended run of two token frames that was cut inside a frame, between
\* the two newlines of a delimiter and inside the two-byte character
C10_Witness ==
    /\ sse.phase = "ended"
    /\ sse.stream = TokenBytes \o TwoByteBytes
    /\ sse.splits = {"frame", "delimiter", "character"}
    /\ sse.events = << TokenEvent(<<"x">>), TokenEvent(<<TwoByteChar>>) >>

----------------------------------------------------------------------------
(* Citations *)

Urls(list) == [i \in DOMAIN list |-> list[i].url]

UrlSet(list) == {list[i].url : i \in DOMAIN list}

DistinctUrls(list) ==
    \A i, j \in DOMAIN list : list[i].url = list[j].url => i = j

Occurrences(list, url) == Cardinality({i \in DOMAIN list : list[i].url = url})

NonEmpty(v) == v \notin {Undefined, ""}

\* the urls of the list that are not in seen, each once, in the order of
\* their first occurrence
RECURSIVE NewUrls(_, _)
NewUrls(seen, list) ==
    IF list = <<>> THEN <<>>
    ELSE IF Head(list).url \in seen THEN NewUrls(seen, Tail(list))
    ELSE <<Head(list).url>> \o NewUrls(seen \cup {Head(list).url}, Tail(list))

\* C11: merging a batch into the result of merging that same batch changes
\* nothing: mergeSources(mergeSources(S, L), L) = mergeSources(S, L) as lists
C11_MergeIdempotent ==
    (res.fn = "mergeSources" /\ res.calls = 2) => res.value = res.existing

\* the batch repeats a url, its first entry lacks the title its second
\* carries, and the first merge changed the existing list
C11_Witness ==
    /\ res.fn = "mergeSources" /\ res.calls = 2
    /\ arg.existing # <<>>
    /\ Len(arg.incoming) = 2
    /\ arg.incoming[1].url = arg.incoming[2].url
    /\ arg.incoming[1].title = Undefined /\ arg.incoming[2].title = "T"
    /\ res.existing # arg.existing
    /\ res.value = res.existing

\* the citations of the annotations of the last citation event
LastIncoming == extractSources(res.annotations)

\* C12: once the citation of a url has a non-empty title or content in a
\* message, every later state holds a citation of that url in that message
\* with the same value in that field
C12_FieldStable ==
    [][\A m \in AllMessages(conversations) :
         \A i \in DOMAIN m.sources :
            /\ HasMessage(conversations', m.id)
            /\ \E k \in DOMAIN MessageById(conversations', m.id).sources :
                  LET before == m.sources[i]
                      after == MessageById(conversations', m.id).sources[k]
                  IN /\ after.url = before.url
                     /\ NonEmpty(before.title) => after.title = before.title
                     /\ NonEmpty(before.content) => after.content = before.content]_vars

\* a message holds title "T" for u1 after a later event carried title "U"
\* and content "d" for u1
C12_Witness ==
    /\ res.fn = "onAnnotations" /\ res.calls = MaxEvents
    /\ \E j \in DOMAIN LastIncoming :
          LastIncoming[j] = Citation("u1", "U", "d")
    /\ \E m \in AllMessages(conversations) :
          \E i \in DOMAIN m.sources :
             /\ m.sources[i].url = "u1"
             /\ m.sources[i].title = "T"
             /\ m.sources[i].content = "d"

\* C13: the source list of every message holds at most one citation per url
C13_OnePerUrl ==
    \A m \in AllMessages(conversations) : DistinctUrls(m.sources)

\* the last event repeated a url that the message already held
C13_Witness ==
    /\ res.fn = "onAnnotations" /\ res.calls = MaxEvents
    /\ Len(LastIncoming) = 2
    /\ LastIncoming[1].url = "u1" /\ LastIncoming[2].url = "u1"
    /\ \E m \in AllMessages(conversations) : Urls(m.sources) = << "u1", "u2" >>

\* the merged field is the existing value if that is non-empty, otherwise
\* the incoming value if that is non-empty, otherwise empty or absent
FieldMerged(existing, incoming, merged) ==
    IF NonEmpty(existing) THEN merged = existing
    ELSE IF NonEmpty(incoming) THEN merged = incoming
    ELSE ~NonEmpty(merged)

\* C14: for a url the existing list and the batch each hold once, the
\* merged entry's title and content are the existing value if that value is
\* non-empty and the incoming value otherwise
C14_MergedFields ==
    (res.fn = "mergeSources" /\ res.calls = 1)
        => \A i \in DOMAIN arg.existing, j \in DOMAIN arg.incoming :
              (/\ arg.existing[i].url = arg.incoming[j].url
               /\ Occurrences(arg.existing, arg.existing[i].url) = 1
               /\ Occurrences(arg.incoming, arg.incoming[j].url) = 1)
                  => \E k \in DOMAIN res.value :
                        /\ res.value[k].url = arg.existing[i].url
                        /\ FieldMerged(arg.existing[i].title, arg.incoming[j].title,
                                       res.value[k].title)
                        /\ FieldMerged(arg.existing[i].content, arg.incoming[j].content,
                                       res.value[k].content)

\* C15: for an existing list with one citation per url, the urls of the
\* result are those of the existing list in their order, followed by the
\* urls new in the batch in the order of their first occurrence
C15_MergeOrder ==
    (res.fn = "mergeSources" /\ res.calls = 1 /\ DistinctUrls(arg.existing))
        => Urls(res.value)
              = Urls(arg.existing) \o NewUrls(UrlSet(arg.existing), arg.incoming)

\* the batch brings a new url and then a url of the existing list, whose
\* entry stays in front of the new one
C15_Witness ==
    /\ res.fn = "mergeSources" /\ res.calls = 1
    /\ Urls(arg.existing) = << "u2", "u1" >>
    /\ Urls(arg.incoming) = << "u3", "u2" >>
    /\ Urls(res.value) = << "u2", "u1", "u3" >>

----------------------------------------------------------------------------
(* Content of a message *)

IsPrefix(a, b) == Len(a) <= Len(b) /\ SubSeq(b, 1, Len(a)) = a

\* the message is there after the step and its content has only grown
Appended(m) ==
    /\ HasMessage(conversations', m.id)
    /\ IsPrefix(m.content, MessageById(conversations', m.id).content)

\* C16 as stated: in every step from a state where a message is streaming,
\* its content before the step is a prefix of its content after the step,
\* the step that ends its task by an error included
C16_AppendOnly ==
    [][\A m \in AllMessages(conversations) : m.isStreaming => Appended(m)]_vars

\* C16 amended: in every step from a state where a message is streaming,
\* its content before is a prefix of its content after, except in the step
\* that ends its task by an error, which replaces the content by a text
\* that starts with "Error: " and clears the streaming flag
C16_AppendUnlessError ==
    [][\A m \in AllMessages(conversations) :
         m.isStreaming
            => IF FailsNow(m.id)
               THEN /\ HasMessage(conversations', m.id)
                    /\ MessageById(conversations', m.id).content[1] = "Error: "
                    /\ ~MessageById(conversations', m.id).isStreaming
               ELSE Appended(m)]_vars

\* one message is still streaming all its tokens while the message of its
\* sibling, which had received a token, holds the error text alone
C16_Witness ==
    \E t \in TaskIds, u \in TaskIds :
        /\ SameTurn(t, u)
        /\ tasks[t].outcome = "error" /\ tasks[t].received # <<>>
        /\ MessageById(conversations, t).content = <<"Error: ">> \o NetworkErrorMessage
        /\ Running(u) /\ Len(tasks[u].received) = MaxFrames
        /\ MessageById(conversations, u).isStreaming
        /\ MessageById(conversations, u).content = Flatten(tasks[u].received)

\* the descriptions of the failures a task can end by at the point it had
\* reached
Descriptions(at) ==
    IF at = "call" THEN {MissingKeyMessage}
    ELSE IF at = "text"
    THEN (ErrorTexts \ {<<>>}) \cup {RequestFailedMessage, NetworkErrorMessage}
    ELSE {NetworkErrorMessage}

\* C17: the message of a task that ended by a failure other than a
\* cancellation holds "Error: " followed by the description of the failure
\* and is not streaming
C17_ErrorText ==
    \A t \in TaskIds :
        tasks[t].outcome = "error"
            => /\ HasMessage(conversations, t)
               /\ \E d \in Descriptions(tasks[t].at) :
                     MessageById(conversations, t).content = <<"Error: ">> \o d
               /\ ~MessageById(conversations, t).isStreaming

\* one task failed on a read after receiving tokens, its sibling on a
\* response that was not ok and had an empty body
C17_Witness ==
    \E t \in TaskIds, u \in TaskIds :
        /\ SameTurn(t, u)
        /\ tasks[t].outcome = "error" /\ tasks[t].at = "read" /\ tasks[t].received # <<>>
        /\ MessageById(conversations, t).content = <<"Error: ">> \o NetworkErrorMessage
        /\ tasks[u].outcome = "error" /\ tasks[u].at = "text"
        /\ MessageById(conversations, u).content = <<"Error: ">> \o RequestFailedMessage

----------------------------------------------------------------------------
(* Requests and their targets *)

\* C19: a request that carries the key stored for a provider is addressed
\* to the base URL of that provider
C19_KeyToOwnEndpoint ==
    \A t \in TaskIds :
        tasks[t].baseUrl # Null
            => \A p \in ProviderIds :
                  tasks[t].apiKey = Key(p) => tasks[t].baseUrl = PROVIDERS[p].baseUrl

\* a comparison turn has sent one request to OpenRouter and one to
\* Anthropic, each with the key of its provider
C19_Witness ==
    \E t \in TaskIds, u \in TaskIds :
        /\ SameTurn(t, u)
        /\ tasks[t].apiKey = Key("openrouter")
        /\ tasks[t].baseUrl = PROVIDERS.openrouter.baseUrl
        /\ tasks[u].apiKey = Key("anthropic")
        /\ tasks[u].baseUrl = PROVIDERS.anthropic.baseUrl

\* the model is enabled and its provider has a key
Dispatchable(id) ==
    \E i \in DOMAIN enabledModels :
        enabledModels[i].id = id /\ keys[enabledModels[i].providerId] # <<>>

\* C20: the tasks a turn spawns target enabled models whose provider has a
\* non-empty key when the turn is sent; a turn in single mode spawns one
\* task, a turn in comparison mode one task for each selected model that is
\* enabled and has a key, and none for any other model
C20_DispatchTargets ==
    [][\A trimmed \in UserInputs :
         sendMessage(trimmed)
            => LET new == DOMAIN tasks' \ DOMAIN tasks
               IN /\ \A t \in new :
                        /\ Dispatchable(tasks'[t].modelId)
                        /\ keys[tasks'[t].providerId] # <<>>
                        /\ \E i \in DOMAIN enabledModels :
                              /\ enabledModels[i].id = tasks'[t].modelId
                              /\ enabledModels[i].providerId = tasks'[t].providerId
                  /\ IF compareMode
                     THEN \A id \in ModelIds :
                             Cardinality({t \in new : tasks'[t].modelId = id})
                               = IF /\ \E i \in DOMAIN selectedCompareModels :
                                          selectedCompareModels[i] = id
                                    /\ Dispatchable(id)
                                 THEN 1 ELSE 0
                     ELSE Cardinality(new) = 1]_vars

\* a turn in single mode went to the one model left with a key, and a
\* later turn in comparison mode to the one model selected
C20_Witness ==
    /\ Len(turns) = 2
    /\ Len(turns[1].tasks) = 1
    /\ tasks[turns[1].tasks[1]].modelId = "claude-custom"
    /\ Len(turns[2].tasks) = 1
    /\ tasks[turns[2].tasks[1]].modelId = "openrouter/anthropic/claude-opus-4.5"
    /\ compareMode
    /\ selectedCompareModels = << "openrouter/anthropic/claude-opus-4.5" >>
    /\ selectedModelId = "claude-custom"

\* C18: a call of streamProviderResponse with an empty key is rejected with
\* the missing-key error, whatever the type of the provider, and has issued
\* no request and emitted no token, image or citation event
C18_MissingKeyFails ==
    (res.fn = "streamProviderResponse" /\ arg.apiKey = <<>>)
        => /\ res.pc = "rejected"
           /\ res.error = MissingKeyMessage
           /\ res.requests = <<>>
           /\ res.events = <<>>

\* the call was made for Google, a provider outside the OpenAI-compatible
\* adapter, without a key
C18_Witness ==
    /\ res.fn = "streamProviderResponse"
    /\ arg.apiKey = <<>>
    /\ PROVIDERS[arg.providerId].type = "google"
    /\ res.pc = "rejected"

----------------------------------------------------------------------------
(* The log of a conversation *)

MessageIds(messages) == [j \in DOMAIN messages |-> messages[j].id]

\* C21: in every step, each message that exists keeps its id, its role, its
\* modelId and its providerId
C21_IdentityImmutable ==
    [][\A i \in DOMAIN conversations :
         /\ i \in DOMAIN conversations'
         /\ \A j \in DOMAIN conversations[i].messages :
               /\ j \in DOMAIN conversations'[i].messages
               /\ conversations'[i].messages[j].id = conversations[i].messages[j].id
               /\ conversations'[i].messages[j].role = conversations[i].messages[j].role
               /\ conversations'[i].messages[j].modelId = conversations[i].messages[j].modelId
               /\ conversations'[i].messages[j].providerId
                     = conversations[i].messages[j].providerId]_vars

\* of the two assistant messages of a comparison turn, one has received a
\* token and then failed and the other was stopped, and both carry the model
\* and the provider their tasks were dispatched with
C21_Witness ==
    \E t \in TaskIds, u \in TaskIds :
        /\ SameTurn(t, u)
        /\ tasks[t].outcome = "error" /\ tasks[t].received # <<>>
        /\ tasks[u].outcome = "aborted"
        /\ \A v \in {t, u} :
              /\ MessageById(conversations, v).role = "assistant"
              /\ MessageById(conversations, v).modelId = tasks[v].modelId
              /\ MessageById(conversations, v).providerId = tasks[v].providerId

\* C22: in every step, the ids of the messages of each conversation before
\* the step are a prefix of the ids after it
C22_LogGrowsAtEnd ==
    [][\A i \in DOMAIN conversations :
         /\ i \in DOMAIN conversations'
         /\ conversations'[i].id = conversations[i].id
         /\ IsPrefix(MessageIds(conversations[i].messages),
                     MessageIds(conversations'[i].messages))]_vars

\* a conversation holds the user message and the two assistant messages of
\* a comparison turn in the order of their creation, after one task ended
\* with its tokens and the other failed
C22_Witness ==
    \E i \in DOMAIN conversations :
        /\ MessageIds(conversations[i].messages) = <<1, 2, 3>>
        /\ tasks[2].outcome = "end" /\ tasks[2].received # <<>>
        /\ tasks[3].outcome = "error"

----------------------------------------------------------------------------
(* Citations extracted from annotations *)

\* the nested object of an annotation when it has one, else the annotation
FieldsOf(ann) ==
    IF ann.url_citation.present THEN ann.url_citation
    ELSE IF ann.urlCitation.present THEN ann.urlCitation
    ELSE ann

\* the url an annotation carries: that of its nested object, or its own
\* when the nested object has none
UrlOf(ann) == IF FieldsOf(ann).url # Undefined THEN FieldsOf(ann).url ELSE ann.url

CarriesUrl(ann) == ann.isObject /\ UrlOf(ann) # Undefined /\ UrlOf(ann) # ""

\* C23: extractSources yields, in order, one citation for each annotation
\* that carries a url and none for the others; the citation has that url
\* and the title and content of the nested url_citation or urlCitation
\* object when the annotation has one, of the annotation itself otherwise,
\* a missing title or content being left undefined
C23_OnePerAnnotationWithUrl ==
    res.fn = "extractSources"
        => LET carrying == SelectSeq(arg.annotations, CarriesUrl)
           IN /\ Len(res.value) = Len(carrying)
              /\ \A k \in DOMAIN carrying :
                    /\ res.value[k].url = UrlOf(carrying[k])
                    /\ res.value[k].title = FieldsOf(carrying[k]).title
                    /\ res.value[k].content = FieldsOf(carrying[k]).content

\* a nested url_citation with a url and a title and no content, followed
\* by an annotation without a url, gave the one citation of the first
C23_Witness ==
    /\ res.fn = "extractSources"
    /\ arg.annotations = << Nested("u2", "U", Undefined), Flat(Undefined, "T", "c") >>
    /\ res.value = << [url |-> "u2", title |-> "U", content |-> Undefined] >>

----------------------------------------------------------------------------
(* Frames of a stream *)

\* the positions of the stream after which a frame that is the sentinel
\* line and its delimiter begins
DoneFrames(stream) ==
    {k \in 0..(Len(stream) - Len(DoneBytes)) :
        /\ SubSeq(stream, k + 1, k + Len(DoneBytes)) = DoneBytes
        /\ k = 0 \/ (k >= 2 /\ stream[k] = LF /\ stream[k - 1] = LF)}

FirstDone(stream) == CHOOSE k \in DoneFrames(stream) : \A l \in DoneFrames(stream) : k <= l

\* C24: in the OpenAI-compatible adapter, once the bytes of a [DONE] frame
\* and its delimiter have been read the loop has ended, and the events
\* emitted are those of the frames before it: no later frame, in the same
\* chunk or after it, has produced an event
C24_DoneEndsStream ==
    (/\ sse.phase # "idle"
     /\ sse.type = "openai"
     /\ DoneFrames(sse.stream) # {}
     /\ sse.pos >= FirstDone(sse.stream) + Len(DoneBytes))
        => LET before == SubSeq(sse.stream, 1, FirstDone(sse.stream))
           IN /\ sse.phase = "ended"
              /\ sse.events = ReadValue(StartRun("openai", before), before).events

\* a chunk held the [DONE] frame and a token frame after it: the loop has
\* ended without an event
C24_Witness ==
    /\ sse.phase = "ended"
    /\ sse.type = "openai"
    /\ sse.stream = DoneBytes \o TokenBytes
    /\ sse.pos = Len(sse.stream)
    /\ sse.events = <<>>

\* the frames of the whole stream that their delimiter completes
CompleteFrames(stream) ==
    LET parts == split(decode(<<>>, stream).text, <<LF, LF>>, <<>>)
    IN  SubSeq(parts, 1, Len(parts) - 1)

\* the payload an adapter of this type takes from a frame, if any
Payload(type, part) ==
    LET line == trim(part)
        dataLines == SelectSeq(split(part, <<LF>>, <<>>),
                               LAMBDA l : startsWith(l, DataPrefix))
    IN  IF type = "anthropic"
        THEN IF dataLines = <<>> THEN [present |-> FALSE, data |-> <<>>]
             ELSE [present |-> TRUE, data |-> trim(stripData(Head(dataLines)))]
        ELSE IF ~startsWith(line, DataPrefix) THEN [present |-> FALSE, data |-> <<>>]
             ELSE [present |-> TRUE, data |-> trim(stripData(line))]

\* the frame has a payload that is neither JSON nor the sentinel of its adapter
Malformed(type, part) ==
    /\ Payload(type, part).present
    /\ ~JSONparse(Payload(type, part).data).ok
    /\ ~(type = "openai" /\ Payload(type, part).data = DoneSentinel)

\* C25: a frame whose payload is not JSON does not end the read loop, which
\* ends only when the stream is exhausted or a [DONE] frame was read, and
\* the events of an ended run are those of the frames of its stream that
\* are not malformed
C25_MalformedSkipped ==
    (sse.phase = "ended")
        => /\ \/ sse.pos = Len(sse.stream)
              \/ /\ sse.type = "openai"
                 /\ DoneFrames(sse.stream) # {}
                 /\ sse.pos >= FirstDone(sse.stream) + Len(DoneBytes)
           /\ sse.events =
                 ForParts(sse.type,
                          SelectSeq(CompleteFrames(sse.stream),
                                    LAMBDA part : ~Malformed(sse.type, part))).events

\* the Anthropic adapter read a malformed frame and then a token frame, and
\* ended with the token of the second
C25_Witness ==
    /\ sse.phase = "ended"
    /\ sse.type = "anthropic"
    /\ sse.stream = MalformedBytes \o TokenBytes
    /\ Malformed("anthropic", CompleteFrames(sse.stream)[1])
    /\ sse.events = << TokenEvent(<<"x">>) >>

----------------------------------------------------------------------------
(* Life of a task *)

\* C26: in every step, a task whose handle was cancelled before the step
\* applies no event, its message keeping its content, images and sources
\* and the task its received tokens, and the only step the task takes is
\* the one that terminates it as cancelled
C26_CancelledTaskStops ==
    [][\A t \in TaskIds :
         tasks[t].aborted
            => /\ HasMessage(conversations', t)
               /\ MessageById(conversations', t).content = MessageById(conversations, t).content
               /\ MessageById(conversations', t).images = MessageById(conversations, t).images
               /\ MessageById(conversations', t).sources = MessageById(conversations, t).sources
               /\ tasks'[t].received = tasks[t].received
               /\ tasks'[t] # tasks[t]
                     => tasks[t].outcome = "none" /\ tasks'[t].outcome = "aborted"]_vars

\* a task cancelled alone after its first token has terminated as cancelled
\* with that token as its content, while its sibling read to the end of
\* its stream
C26_Witness ==
    \E t \in TaskIds, u \in TaskIds :
        /\ SameTurn(t, u)
        /\ tasks[t].outcome = "aborted" /\ tasks[t].at = "read"
        /\ Len(tasks[t].received) = 1
        /\ MessageById(conversations, t).content = Flatten(tasks[t].received)
        /\ tasks[u].outcome = "end" /\ ~tasks[u].aborted
        /\ Len(tasks[u].received) = MaxFrames

\* C27: the step of sendMessage leaves the log of the active conversation
\* as it was, followed by the user message of the turn and then by one
\* assistant message for each target model in target order, each with
\* empty content, marked streaming, registered in abortControllersRef and
\* with no token received by its task
C27_DispatchShape ==
    [][\A trimmed \in UserInputs :
         sendMessage(trimmed)
            => LET old == ConversationOf(conversations, activeConversationId).messages
                   new == ConversationOf(conversations', activeConversationId).messages
                   targets == IF compareMode
                              THEN SelectSeq(selectedCompareModels, Dispatchable)
                              ELSE << selectedModelId >>
               IN /\ Len(new) = Len(old) + 1 + Len(targets)
                  /\ SubSeq(new, 1, Len(old)) = old
                  /\ new[Len(old) + 1].role = "user"
                  /\ new[Len(old) + 1].content = trimmed
                  /\ ~new[Len(old) + 1].isStreaming
                  /\ \A j \in DOMAIN targets :
                        LET message == new[Len(old) + 1 + j]
                        IN /\ message.role = "assistant"
                           /\ message.modelId = targets[j]
                           /\ message.content = <<>>
                           /\ message.isStreaming
                           /\ message.id \in abortControllersRef'
                           /\ message.id \in DOMAIN tasks'
                           /\ tasks'[message.id].received = <<>>]_vars

\* a comparison turn was just sent with the custom model selected before
\* the first one: the log is the user message, then the assistant message
\* of the custom model, then that of the first model, both empty, streaming
\* and registered
C27_Witness ==
    /\ selectedCompareModels = << allModels[2].id, allModels[1].id >>
    /\ Len(turns) = 1
    /\ turns[1].tasks = <<2, 3>>
    /\ abortControllersRef = {2, 3}
    /\ \E i \in DOMAIN conversations :
          /\ MessageIds(conversations[i].messages) = <<1, 2, 3>>
          /\ conversations[i].messages[1].role = "user"
          /\ conversations[i].messages[2].modelId = allModels[2].id
          /\ conversations[i].messages[3].modelId = allModels[1].id
          /\ \A j \in {2, 3} :
                /\ conversations[i].messages[j].content = <<>>
                /\ conversations[i].messages[j].isStreaming
                /\ tasks[j].pc = "fetch"

\* C28: the message of a task that has terminated is not marked streaming,
\* and no message of a turn whose promise has settled is marked streaming
C28_TerminatedNotStreaming ==
    /\ \A t \in TaskIds :
          tasks[t].pc = "done"
              => HasMessage(conversations, t) /\ ~MessageById(conversations, t).isStreaming
    /\ \A k \in DOMAIN turns :
          turns[k].promise # "pending"
              => /\ ~MessageById(conversations, turns[k].userMessage).isStreaming
                 /\ \A i \in DOMAIN turns[k].tasks :
                       ~MessageById(conversations, turns[k].tasks[i]).isStreaming

\* a comparison turn has completed after one task read its stream to the
\* end and the other, stopped after its first token, was cancelled
C28_Witness ==
    \E t \in TaskIds, u \in TaskIds :
        /\ SameTurn(t, u)
        /\ turns[tasks[t].turn].promise # "pending"
        /\ tasks[t].outcome = "end" /\ tasks[t].received # <<>>
        /\ tasks[u].outcome = "aborted" /\ tasks[u].received # <<>>
        /\ ~MessageById(conversations, t).isStreaming
        /\ ~MessageById(conversations, u).isStreaming

\* C29: abortControllersRef holds handles of tasks that have not terminated
\* only, holds the handle of every task that runs and was not cancelled,
\* and is empty when every task has terminated
C29_RegistryLifecycle ==
    /\ \A t \in abortControllersRef : t \in TaskIds /\ Pending(t)
    /\ \A t \in TaskIds : Running(t) => t \in abortControllersRef
    /\ (\A t \in TaskIds : tasks[t].pc = "done") => abortControllersRef = {}

\* of the two tasks of a comparison turn, one has failed and left the
\* registry and the other, still reading, is the one handle it holds
C29_Witness ==
    \E t \in TaskIds, u \in TaskIds :
        /\ SameTurn(t, u)
        /\ tasks[t].outcome = "error"
        /\ Running(u) /\ tasks[u].pc = "read"
        /\ abortControllersRef = {u}

\* C30: when no provider stalls for ever, every task dispatched eventually
\* terminates and every turn eventually completes; and in any case a task
\* terminates only in a step in which the promise it awaits settles, so
\* that a task whose provider delivers nothing and whose handle is not
\* cancelled stays running, and the message of a running task is marked
\* streaming
C30_TerminationIffStreamsEnd ==
    /\ \A t \in 1..(MaxTurns + MaxTasks) :
          (t \in TaskIds) ~> (t \in TaskIds /\ tasks[t].pc = "done")
    /\ \A k \in 1..MaxTurns :
          (k \in DOMAIN turns) ~> (k \in DOMAIN turns /\ turns[k].promise # "pending")
    /\ [][\A t \in TaskIds :
             (tasks[t].pc # "done" /\ tasks'[t].pc = "done") => ProviderStep(t)]_vars
    /\ [](\A t \in TaskIds : Running(t) => MessageById(conversations, t).isStreaming)

\* two turns have completed, the first after its task read its stream to
\* the end and the second after its task failed
C30_Witness ==
    /\ Len(turns) = 2
    /\ turns[1].promise # "pending"
    /\ turns[2].promise # "pending"
    /\ tasks[turns[1].tasks[1]].outcome = "end"
    /\ tasks[turns[2].tasks[1]].outcome = "error"

----------------------------------------------------------------------------
(* The request of the OpenAI-compatible adapter *)

\* the part the claim describes for one attachment: an image reference for
\* an image mimetype, a text part labelled with the file's name otherwise
DescribedPart(att, part) ==
    IF att.type # <<>> /\ att.type[1] = "image/"
    THEN part = [type |-> "image_url", image_url |-> [url |-> att.dataUrl]]
    ELSE /\ part.type = "text"
         /\ SubSeq(part.text, 1, 3) = <<"[File: ", att.name, "]">>

\* the message of the call has attachments and the call has returned
SentWithAttachments ==
    /\ res.fn = "payloadMessages"
    /\ Len(arg.msg.attachments) > 0

\* C31, as stated: a message with attachments is sent as a parts list that
\* begins with a text part carrying the message content, followed by exactly
\* one part per attachment in attachment order, an image reference for an
\* image mimetype and a labelled text part otherwise.
C31_PartsList ==
    SentWithAttachments =>
        LET parts == res.value.content
            atts == arg.msg.attachments
        IN  /\ Len(parts) = 1 + Len(atts)
            /\ parts[1] = [type |-> "text", text |-> arg.msg.content]
            /\ \A i \in 1..Len(atts) : DescribedPart(atts[i], parts[i + 1])

\* C31, amended: the leading text part is there when the message content is
\* not empty; a message with attachments and no text is sent as the
\* attachments' parts alone, one per attachment in attachment order.
C31_PartsListUnlessEmpty ==
    SentWithAttachments =>
        LET parts == res.value.content
            atts == arg.msg.attachments
            lead == IF arg.msg.content # "" THEN 1 ELSE 0
        IN  /\ Len(parts) = lead + Len(atts)
            /\ lead = 1 => parts[1] = [type |-> "text", text |-> arg.msg.content]
            /\ \A i \in 1..Len(atts) : DescribedPart(atts[i], parts[i + lead])

\* a message with text, a text file and an image has been turned into
\* three parts
C31_Witness ==
    /\ SentWithAttachments
    /\ arg.msg.content = "hello"
    /\ Len(res.value.content) = 3
    /\ res.value.content[2].type = "text"
    /\ res.value.content[3].type = "image_url"

----------------------------------------------------------------------------
(* Streaming flags after they were cleared *)

\* C32: an assistant message whose streaming flag has been cleared (every
\* assistant message is created streaming) keeps the flag cleared and keeps
\* its content in every later step.
C32_ClearedStaysCleared ==
    [][\A i \in DOMAIN conversations : \A j \in DOMAIN conversations[i].messages :
          LET message == conversations[i].messages[j]
          IN  (message.role = "assistant" /\ ~message.isStreaming)
                  => /\ HasMessage(conversations', message.id)
                     /\ ~MessageById(conversations', message.id).isStreaming
                     /\ MessageById(conversations', message.id).content = message.content]_vars

\* a stop cleared the message of the first turn after it had received a
\* token, and the task of a later turn has received tokens since
C32_Witness ==
    /\ Len(turns) = 2
    /\ LET t == turns[1].tasks[1]
           u == turns[2].tasks[1]
       IN  /\ tasks[t].outcome = "aborted"
           /\ tasks[t].received # <<>>
           /\ tasks[t].conversationId = tasks[u].conversationId
           /\ tasks[u].received # <<>>
           /\ ~MessageById(conversations, t).isStreaming
           /\ MessageById(conversations, t).content = Flatten(tasks[t].received)

\* C33: a task that was active when stop ran is a task that has not
\* terminated and whose handle stop took out of the registry; the message
\* of every such task, in the active conversation or in another one,
\* eventually has its streaming flag cleared.
C33_StopClearsEverywhere ==
    \A t \in 1..(MaxTurns + MaxTasks) :
        (t \in TaskIds /\ Pending(t) /\ t \notin abortControllersRef)
            ~> (t \in TaskIds /\ ~MessageById(conversations, t).isStreaming)

\* stop has run in conversation c2 while a task of conversation c1 was
\* streaming: that task's handle was aborted with the others, and its
\* message, which the stop did not touch, is still marked streaming
C33_Witness ==
    /\ Len(turns) = 2
    /\ activeConversationId = "c2"
    /\ abortControllersRef = {}
    /\ LET t == turns[1].tasks[1]
           u == turns[2].tasks[1]
       IN  /\ tasks[t].conversationId = "c1"
           /\ tasks[u].conversationId = "c2"
           /\ Pending(t) /\ tasks[t].aborted
           /\ tasks[u].aborted
           /\ tasks[t].received # <<>>
           /\ MessageById(conversations, t).isStreaming
           /\ ~MessageById(conversations, u).isStreaming

----------------------------------------------------------------------------
(* Tasks and the conversation of their turn *)

\* a step of task t's own body: its state changes, and not by an abort of
\* its handle
TaskStep(t) ==
    /\ t \in TaskIds
    /\ tasks'[t] # tasks[t]
    /\ tasks'[t].aborted = tasks[t].aborted

\* C34: in every step of a task, whichever conversation is active, the
\* task's events are applied to its message in the conversation in which
\* its turn was dispatched, and every other conversation is left as it was.
C34_EventsInDispatchConversation ==
    [][\A t \in TaskIds :
          TaskStep(t) =>
              LET dispatched == turns[tasks[t].turn].conversationId
                  messages == ConversationOf(conversations', dispatched).messages
              IN  /\ tasks[t].conversationId = dispatched
                  /\ \E j \in DOMAIN messages :
                        /\ messages[j].id = t
                        /\ tasks'[t].outcome # "error"
                              => messages[j].content = Flatten(tasks'[t].received)
                  /\ \A i \in DOMAIN conversations :
                        conversations[i].id # dispatched
                            => conversations'[i] = conversations[i]]_vars

\* while conversation c2 is active and has a streaming task of its own, the
\* task of conversation c1 has delivered all its tokens to its message
C34_Witness ==
    /\ Len(turns) = 2
    /\ activeConversationId = "c2"
    /\ LET t == turns[1].tasks[1]
           u == turns[2].tasks[1]
       IN  /\ turns[1].conversationId = "c1"
           /\ turns[2].conversationId = "c2"
           /\ Pending(u)
           /\ tasks[u].received # <<>>
           /\ Len(tasks[t].received) = MaxFrames
           /\ MessageById(conversations, t).content = Flatten(tasks[t].received)
           /\ \E j \in DOMAIN ConversationOf(conversations, "c1").messages :
                 ConversationOf(conversations, "c1").messages[j].id = t

----------------------------------------------------------------------------
(* Conversations created and deleted while tasks stream *)

\* the list of conversations changes in the step
ChatListChanges ==
    [i \in DOMAIN conversations |-> conversations[i].id]
        # [i \in DOMAIN conversations' |-> conversations'[i].id]

\* C35: when a conversation is created or deleted, every conversation that
\* survives the step keeps its messages, and the content of each still
\* holds every token that had been applied to it.
C35_ChatStepsKeepTokens ==
    [][ChatListChanges =>
          \A i \in DOMAIN conversations : \A k \in DOMAIN conversations' :
              conversations'[k].id = conversations[i].id =>
                  \A j \in DOMAIN conversations[i].messages :
                      /\ j \in DOMAIN conversations'[k].messages
                      /\ conversations'[k].messages[j].id = conversations[i].messages[j].id
                      /\ IsPrefix(conversations[i].messages[j].content,
                                  conversations'[k].messages[j].content)]_vars

----------------------------------------------------------------------------
(* Turns *)

\* C36: every turn, whose user message is in the log of its conversation,
\* has spawned at least one task, and each of its tasks has its assistant
\* message in that log.
C36_TurnSpawnsTask ==
    \A k \in DOMAIN turns :
        LET messages == ConversationOf(conversations, turns[k].conversationId).messages
        IN  /\ \E j \in DOMAIN messages :
                  messages[j].id = turns[k].userMessage /\ messages[j].role = "user"
            /\ turns[k].tasks # <<>>
            /\ \A n \in DOMAIN turns[k].tasks :
                  \E j \in DOMAIN messages :
                      messages[j].id = turns[k].tasks[n] /\ messages[j].role = "assistant"

----------------------------------------------------------------------------
(* The end of a stream *)

\* the bytes of the stream up to its last blank-line delimiter
Delimited(stream) ==
    LET ends == {i \in 2..Len(stream) : stream[i - 1] = LF /\ stream[i] = LF}
    IN  IF ends = {} THEN <<>>
        ELSE SubSeq(stream, 1, CHOOSE i \in ends : \A k \in ends : k <= i)

\* C38: a run that has ended after reading the whole stream has delivered
\* the events of the stream cut after its last blank-line delimiter: what
\* the carry-over buffer held at the end of the stream produced no event.
C38_CarryOverDiscarded ==
    (sse.phase = "ended" /\ sse.pos = Len(sse.stream))
        => sse.events = ReadValue(StartRun(sse.type, Delimited(sse.stream)),
                                  Delimited(sse.stream)).events

\* a stream of a complete frame and a frame without its delimiter has
\* ended with the first frame's token only, the second frame still in the
\* buffer
C38_Witness ==
    /\ sse.phase = "ended"
    /\ sse.stream = TokenBytes \o UnfinishedBytes
    /\ sse.pos = Len(sse.stream)
    /\ sse.buffer # <<>>
    /\ PartEvents(sse.type, sse.buffer).events # <<>>
    /\ sse.events = << TokenEvent(<<"x">>) >>

----------------------------------------------------------------------------
(* The storage hook *)

\* the JSON texts of the model and the values they denote
JSONTexts ==
    { <<<<"null">>, [type |-> "null", v |-> ""]>>,
      <<<<"[", "]">>, [type |-> "array", v |-> ""]>>,
      <<<<"1">>, [type |-> "number", v |-> "1"]>>,
      <<<<"0">>, [type |-> "number", v |-> "0"]>>,
      <<<<SP, "0", LF>>, [type |-> "number", v |-> "0"]>>,
      <<<<"\"", "dark", "\"">>, [type |-> "string", v |-> "dark"]>>,
      <<<<"\"", "basic", "\"">>, [type |-> "string", v |-> "basic"]>> }

\* C39: the hook started from the value of the stored text when storage
\* held JSON under the key, and from initialValue when the key was absent,
\* storage could not be read or the text does not parse; the value in
\* memory is the last value set, whether or not its write succeeded; after
\* a write that succeeded storage holds a JSON text of that value; no
\* error has left the hook.
C39_StorageHook ==
    res.fn = "useLocalStorage" =>
        /\ \A pair \in JSONTexts :
              (arg.storage.state = "text" /\ arg.storage.text = pair[1])
                  => res.started = pair[2]
        /\ (arg.storage.state # "text" \/ \A pair \in JSONTexts : arg.storage.text # pair[1])
              => res.started = arg.initialValue
        /\ res.value = res.given
        /\ res.wrote => /\ res.storage.state = "text"
                        /\ \E pair \in JSONTexts :
                              pair[1] = res.storage.text /\ pair[2] = res.value
        /\ ~res.threw

\* the hook started from initialValue because the stored text does not
\* parse, a value was set and written, and the next value was set while
\* the write failed: memory holds the new value, storage the one before
C39_Witness ==
    /\ res.fn = "useLocalStorage"
    /\ arg.storage = [state |-> "text", text |-> <<"[">>]
    /\ res.started = arg.initialValue
    /\ res.value = [type |-> "string", v |-> "dark"]
    /\ ~res.wrote
    /\ res.storage = [state |-> "text", text |-> <<"[", "]">>]

====
